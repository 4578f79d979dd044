--------------------------- MODULE MC_TxBufferSim ---------------------------
EXTENDS TxBufferSim

(* Buffer settings the command line accepts (--core-buffer-frames,        *)
(* --tx-queue-capacity, --ring-capacity and the profile overrides), sized  *)
(* so that overruns, underrun windows and refills that stop on the chunk   *)
(* limit or on an empty queue all happen within a dozen cycles.            *)

(* Small buffers, blocking cadence, unbounded prime: the ring starts with  *)
(* two DATA packets' worth and the queue holds three callbacks.           *)
Small ==
  [coreBufferFrames |-> 16, txQueueCapacity |-> 48, ringCapacity |-> 47,
   startWait |-> 16, primeLimit |-> 0, rbTarget |-> 24, rbMax |-> 32,
   maxChunks |-> 1, streamMode |-> "blocking", sampleRate |-> 48000,
   channels |-> 2, refillHz |-> 1000, adkOutputLatencyFrames |-> 24,
   adkOutputSafetyFrames |-> 32]

(* A refill wanting more than two 256-frame chunks, with maxChunks 2 and a *)
(* prime limit of 8 leaving 512 frames in the queue; non-blocking cadence. *)
Chunked ==
  [coreBufferFrames |-> 16, txQueueCapacity |-> 600, ringCapacity |-> 800,
   startWait |-> 520, primeLimit |-> 8, rbTarget |-> 600, rbMax |-> 700,
   maxChunks |-> 2, streamMode |-> "non-blocking", sampleRate |-> 48000,
   channels |-> 8, refillHz |-> 1000, adkOutputLatencyFrames |-> 24,
   adkOutputSafetyFrames |-> 32]

MCConfigs == {Small, Chunked}

(* --sweep arguments: auto, an accepted and a rejected start:stop:step, a *)
(* comma list out of order with a duplicate, an empty token and a 0, a    *)
(* list with a non-digit token, and a single number (no comma), which     *)
(* parse_sweep_spec rejects.                                               *)
SweepArg(form, start, stop, step, tokens) ==
  [form |-> form, start |-> start, stop |-> stop, step |-> step, tokens |-> tokens]
MCSweepSpecs ==
  { SweepArg("auto", 0, 0, 0, << >>),
    SweepArg("range", 64, 200, 64, << >>),
    SweepArg("range", 100, 50, 10, << >>),
    SweepArg("list", 0, 0, 0, <<192, 128, EmptyToken, 64, 0, 128>>),
    SweepArg("list", 0, 0, 0, <<64, NonDigitToken>>),
    SweepArg("other", 0, 0, 0, << >>) }
=============================================================================
