------------------------------- MODULE MCChains -------------------------------
(***************************************************************************)
(* The chain that drains and the chain that renders offline, each on its own *)
(* and with its fairness: `part` is the one that runs, the other rests where *)
(* it starts.  The render has an equalizer, an armed saturation stage with   *)
(* and without its high-pass, a convolver and a bypassed stage.              *)
(***************************************************************************)
EXTENDS MCDspChainFinish, OutputRenderChain

Equalizer == [latency |-> 0, tail |-> Endless]
Armed == [latency |-> 1, tail |-> 0]
Highpass == [latency |-> 1, tail |-> Endless]
Convolver == [latency |-> 0, tail |-> 3]
Bypassed == [latency |-> 0, tail |-> 0]
MCSources ==
  {<<Armed>>, <<Equalizer>>, <<Armed, Equalizer>>, <<Highpass, Convolver>>,
   <<Convolver, Highpass>>, <<Equalizer, Highpass>>}
MCRatios == {<<1, 1>>, <<1, 2>>, <<2, 1>>}
MCLoudness == {0 .. 60, 0 .. 2, {9}, {k \in 0 .. 60 : k % 2 = 0}}
MCLive == {Equalizer, Bypassed}

VARIABLE part

PartsInit ==
  /\ part \in {"finish", "render"}
  /\ Init /\ RenderInit
  /\ part # "render" => /\ setup = [rates |-> <<1, 1>>, programme |-> 1, loud |-> {9}]
                        /\ actual = [stages |-> <<Armed>>, limiter |-> 0]

InFinish(A) == part = "finish" /\ A /\ UNCHANGED <<part, renderVars>>
InRender(A) == part = "render" /\ A /\ UNCHANGED <<part, vars>>

PartsNext == InFinish(Next) \/ InRender(RenderNext)

partsVars == <<part, vars, renderVars>>

\* The fairness of the two specifications, of which only one runs.
FairParts ==
  /\ PartsInit /\ [][PartsNext]_partsVars
  /\ WF_partsVars(InFinish(Round) \/ InRender(Render))
  /\ WF_partsVars(InFinish(~Open /\ \E n \in Capacities \ {0} : BeginFinish(n)))
=============================================================================
