---------------------------- MODULE MobilePromise ----------------------------
(* What package mobile promises to the Android service: one engine for the  *)
(* whole process, and a descriptor that, once it is handed over, belongs to *)
(* the engine or is closed. AndroidTunnel is built on these steps, and      *)
(* EmbeddedEngine implements them.                                         *)
EXTENDS Integers

VARIABLES
    engine,     \* mobile.current: the descriptor the engine serves, or 0
    open        \* TUN descriptors that are open in the process

(* VpnService.Builder.establish, detachFd *)
Detached(d) ==
    /\ d \notin open
    /\ open' = open \cup {d}
    /\ UNCHANGED engine

MobileStop ==
    /\ engine' = 0
    /\ open' = open \ {engine}

MobileStarts(d) ==
    /\ engine = 0
    /\ d \in open
    /\ engine' = d
    /\ UNCHANGED open

(* Mutant: a start refused because an engine is active keeps its descriptor. *)
MobileFails_KeepsDescriptor(d) ==
    /\ open' = IF engine = 0 THEN open \ {d} ELSE open
    /\ UNCHANGED engine

(* An engine is active already, or Engine.Start returns an error. *)
MobileFails(d) ==
    /\ d \in open /\ d # engine
    /\ open' = open \ {d}
    /\ UNCHANGED engine

MInit == engine = 0 /\ open = {}

MNext ==
    \/ \E d \in open' : Detached(d)
    \/ \E d \in open : MobileStarts(d) \/ MobileFails(d)
    \/ MobileStop

MSpec == MInit /\ [][MNext]_<<engine, open>>

=============================================================================
