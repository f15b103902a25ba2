---------------------------- MODULE HashPromises ----------------------------
(***************************************************************************)
(* What request(hash) of a Peer (webrtc/peer.ts) and get(hash) of a         *)
(* WebRTCStore (webrtc/store.ts) promise their callers: a call settles at most once, with the data of the hash it    *)
(* asked for or with null, and data is delivered to callers of one hash    *)
(* at a time.  Nothing is said about messages, timers or verification.     *)
(***************************************************************************)
CONSTANTS
  Hashes, Callers, NoHash,
  AtOnce \* how a call may settle without waiting

VARIABLES
  callerHash, \* what each caller asked for
  outcome     \* the state of its promise

Init ==
  /\ callerHash = [c \in Callers |-> NoHash]
  /\ outcome = [c \in Callers |-> "idle"]

Ask(c, h) ==
  /\ outcome[c] = "idle"
  /\ callerHash' = [callerHash EXCEPT ![c] = h]
  /\ \E now \in {"waiting"} \union AtOnce : outcome' = [outcome EXCEPT ![c] = now]

Waiting == {c \in Callers : outcome[c] = "waiting"}

SettleAll(S, result) ==
  /\ outcome' = [c \in Callers |-> IF c \in S THEN result ELSE outcome[c]]
  /\ UNCHANGED callerHash

(* The bytes of h reach callers waiting for h. *)
Answer(h, S) ==
  /\ \A c \in S : callerHash[c] = h
  /\ SettleAll(S, "data")

GiveUp(S) == SettleAll(S, "null")

Next ==
  \/ \E c \in Callers, h \in Hashes : Ask(c, h)
  \/ \E h \in Hashes, S \in SUBSET Waiting : Answer(h, S)
  \/ \E S \in SUBSET Waiting : GiveUp(S)

Spec == Init /\ [][Next]_<<callerHash, outcome>>
=============================================================================
