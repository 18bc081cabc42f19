-------------------------- MODULE MCDspChainFinish --------------------------
(* A saturation stage, a look-ahead limiter, a noise shaper.                *)
EXTENDS DspChainFinish

Kind(latency, tail, asymptotic, barrier) ==
  [latency |-> latency, tail |-> tail, asymptotic |-> asymptotic, barrier |-> barrier]
Saturation == Kind(0, 1, "switched", FALSE)
Limiter == Kind(1, 0, "never", FALSE)
Shaper == Kind(0, 0, "never", TRUE)
FewKinds == {Saturation, Limiter}
ThreeKinds == {Saturation, Limiter, Shaper}
MCPolicies == {[hold |-> 2, max |-> 3], [hold |-> 1, max |-> 1]}
OnePolicy == {[hold |-> 2, max |-> 3]}
=============================================================================
