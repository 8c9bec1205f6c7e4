----------------------- MODULE VideoSendControllerState -----------------------
(***************************************************************************)
(* The state of the sharer's congestion controller and of the threads that *)
(* drive it (VideoSendController), and what must be true of it whenever    *)
(* those threads are between two of their steps.                           *)
(***************************************************************************)
EXTENDS Integers, FiniteSets, Functions

CONSTANTS
    Targets,          \* bitrates the user can choose as ceiling
    MinBitrate,       \* VIDEO_ADAPT_MIN_BITRATE
    CongestedWindows, \* congested_windows
    CleanWindows,     \* clean_windows
    Horizon,          \* tenths of a bitrate unit that may be outstanding
    MaxSize           \* largest frame

(* What the code takes for granted of its parameters. *)
ASSUME ControllerAssumption ==
    /\ Targets \subseteq Nat \ {0} /\ Targets # {} /\ IsFiniteSet(Targets)
    /\ MinBitrate \in Nat \ {0} /\ Horizon \in Nat
    /\ CongestedWindows \in Nat \ {0} /\ CleanWindows \in Nat \ {0}
    /\ MaxSize \in Nat \ {0}

VARIABLES
    rate,         \* cfg_'s target and floor (min_bitrate_bps), adapted (bitrate_bps_), published,
                  \* pending (0 = none), publish interval running
    window,       \* over; a frame was lost or refused in it; consecutive congested, clean windows
    outstanding,  \* outstanding_
    inflight,     \* external: the transport's unfinished sends, per size
    encode,       \* encode thread: pc, frame size, the CAS loop's `after`, the encoder's bitrate (0 = none)
    net,          \* connected, authenticated_
    cleanup       \* main thread: where on_disconnect_cleanup stands

Sizes == 1 .. MaxSize
MaxTarget == CHOOSE t \in Targets : \A u \in Targets : u <= t
MinTarget == CHOOSE t \in Targets : \A u \in Targets : t <= u
Lowest(a, b) == IF a < b THEN a ELSE b

InFlightBytes == SumFunction([s \in Sizes |-> s * inflight[s]])

ControllerTypeOK ==
    /\ rate \in [target : Targets, floor : 1 .. MinBitrate, adapted : 1 .. MaxTarget,
                 published : 1 .. MaxTarget, pending : 0 .. MaxTarget, recent : BOOLEAN]
    /\ window \in [over : BOOLEAN, lost : BOOLEAN, refused : BOOLEAN,
                   congested : 0 .. CongestedWindows - 1, clean : 0 .. CleanWindows - 1]
    /\ outstanding \in Int
    /\ inflight \in [Sizes -> Nat]
    /\ encode \in [pc : {"off", "idle", "create", "configure", "charge", "send", "refund", "clamp", "failed"},
                   size : Sizes, after : Int, bitrate : 0 .. MaxTarget]
    /\ net \in [connected : BOOLEAN, authenticated : BOOLEAN]
    /\ cleanup \in {"idle", "clear", "join"}

----------------------------------------------------------------------------
(* Whenever no thread is in the middle of its accounting, the counter is    *)
(* exactly what the transport still holds: nothing is lost or counted twice *)
(* by failing sends, by sends that outlive their share, or by a cleanup     *)
(* that zeroes the counter under a send in progress. And a completion never *)
(* finds less than its bytes, so it is never clamped.                       *)
OutstandingExact ==
    /\ (encode.pc \notin {"send", "refund", "clamp"} /\ cleanup = "idle")
        => outstanding = InFlightBytes
    /\ InFlightBytes > 0 => outstanding >= InFlightBytes

(* Whatever windows close and wherever the slider goes, the bitrate stays   *)
(* at or below the user's ceiling and never sinks under the floor or the    *)
(* lowest ceiling that can be chosen. (It can be under the share's floor:   *)
(* raising the ceiling again does not raise it.)                            *)
BitrateInRange == rate.adapted \in Lowest(MinBitrate, MinTarget) .. rate.target

(* The bitrate stays in its range, and the bytes charged are the bytes of   *)
(* the sends that have not completed.                                       *)
SendAccounting == ControllerTypeOK /\ BitrateInRange /\ OutstandingExact
=============================================================================
