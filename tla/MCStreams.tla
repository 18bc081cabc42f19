------------------------------- MODULE MCStreams -------------------------------
(***************************************************************************)
(* Streams and what is made of them, each on its own: `source` is the one    *)
(* that runs, the others rest where they start.                             *)
(***************************************************************************)
EXTENDS SpectrumAnalyzer, SaturationCore, SincStream, ResamplerKernels,
        StreamingResampler, PlaybackParameters, TLC

VARIABLE source

A(multi, divisor, smooth, hold) ==
  [multi |-> multi, divisor |-> divisor, smooth |-> smooth, hold |-> hold, low |-> 0,
   high |-> 40, rate |-> 3200]
MCAnalyzers ==
  {A(TRUE, 3, TRUE, 4), A(FALSE, 5, TRUE, 5), A(FALSE, 17, FALSE, 2), A(FALSE, 3, FALSE, 0)}
MCLevels == <<12, 50, 3, 0, 30>>
MCBandEdges == 3200 :> <<20, 60, 179, 535, 1600>> @@ 1600 :> <<20, 50, 126, 317, 800>>

MCRatios == [direct |-> 1, x2 |-> 2, x4 |-> 3]
MCTaps == [direct |-> 0, x2 |-> 9, x4 |-> 13]

S(from, to, length, phases, points) ==
  [from |-> from, to |-> to, length |-> length, phases |-> phases, points |-> points]
MCSincConfigs == {S(3, 5, 4, 4, 4), S(5, 3, 4, 2, 2), S(40, 1, 4, 2, 2), S(23, 2, 4, 4, 4)}

K(kind, up, down, taps, chunk) ==
  [kind |-> kind, up |-> up, down |-> down, taps |-> taps, chunk |-> chunk]
MCKernels ==
  {K("polyphase", 3, 2, 3, 4), K("polyphase", 2, 7, 3, 5), K("polyphase", 1, 4, 2, 4),
   K("polyphase", 5, 3, 1, 1), K("spectral", 3, 2, 3, 4), K("spectral", 2, 3, 5, 5),
   K("spectral", 1, 4, 3, 5), K("spectral", 2, 1, 3, 7), K("halfband", 2, 1, 2, 4),
   K("halfband", 2, 1, 4, 5), K("fft", 5, 3, 1, 3), K("fft", 3, 5, 1, 5),
   K("fft", 4, 7, 1, 7), K("fft", 7, 4, 1, 4), K("fft", 4, 3, 1, 3), K("fft", 8, 3, 1, 3),
   K("fft", 6, 5, 1, 5), K("fft", 2, 1, 1, 1), K("fft", 1, 2, 1, 2)}

L(interleaved, channels, from, to) ==
  [interleaved |-> interleaved, channels |-> channels, from |-> from, to |-> to]
MCLayouts == {L(TRUE, 2, 2, 3), L(FALSE, 3, 3, 2), L(FALSE, 1, 2, 3), L(TRUE, 2, 1, 1), L(FALSE, 3, 1, 3)}

StreamsInit ==
  /\ source \in {"spectrum", "core", "sinc", "kernels", "resampler", "parameters", "telemetry"}
  /\ SpectrumInit /\ CoreInit /\ SincInit /\ KernelsInit /\ ResamplerInit /\ ParametersInit /\ MeterInit
  /\ source # "spectrum" => analyzer.config = A(FALSE, 3, FALSE, 0)
  /\ source # "core" => core.quality = "direct" /\ ~core.highpass
  /\ source # "sinc" => sinc.config = S(3, 5, 4, 4, 4)
  /\ source # "kernels" => kernelInUse.kind = "polyphase" /\ kernelInUse.up = 5
  /\ source # "resampler" => resampler.layout = L(TRUE, 2, 1, 1)
  /\ source # "parameters" => stageInUse = [stage |-> "volume", facade |-> TRUE]

Rest ==
  /\ source # "spectrum" => UNCHANGED spectrumVars
  /\ source # "core" => UNCHANGED coreVars
  /\ source # "sinc" => UNCHANGED sincVars
  /\ source # "kernels" => UNCHANGED kernelVars
  /\ source # "resampler" => UNCHANGED resamplerVars
  /\ source # "parameters" => UNCHANGED parameterVars
  /\ source # "telemetry" => UNCHANGED meterVars

StreamsNext ==
  /\ UNCHANGED source
  /\ \/ source = "spectrum" /\ SpectrumNext /\ Rest
     \/ source = "core" /\ CoreNext /\ Rest
     \/ source = "sinc" /\ SincNext /\ Rest
     \/ source = "kernels" /\ KernelsNext /\ Rest
     \/ source = "resampler" /\ ResamplerNext /\ Rest
     \/ source = "parameters" /\ ParametersNext /\ Rest
     \/ source = "telemetry" /\ MeterNext /\ Rest

streamsVars ==
  <<source, spectrumVars, coreVars, sincVars, kernelVars, resamplerVars,
    parameterVars, meterVars>>

Streams == StreamsInit /\ [][StreamsNext]_streamsVars
=============================================================================
