------------------------------- MODULE Hwsnap --------------------------------
(***************************************************************************)
(* Snapshots: take_snapshot.sh and snapshot.sh run hwsnap, and again if   *)
(* it fails.  hwsnap asks an on-demand JPEG channel of the running media   *)
(* system for one picture, waits for it, takes it, and stops the channel   *)
(* again.  The channel is one for all of them and for rmm, and knows    *)
(* nobody by name: who takes a picture need not be who asked for it.       *)
(***************************************************************************)
EXTENDS CampipeMain, FiniteSets

CONSTANTS
  Snappers,   \* those that take snapshots
  MaxSnaps    \* bound: snapshots

ASSUME SnapAssumption == IsFiniteSet(Snappers) /\ MaxSnaps \in Nat

VARIABLES
  snap,     \* where the hwsnap of each of them is
  attempt,  \* its first or second
  wanted,   \* pictures the channel is still to encode, s32RecvPicNum
  ready,    \* encoded pictures in the channel's buffer
  output,   \* pictures written in this snapshot
  snaps,    \* snapshots begun
  failed    \* hwsnaps that failed after StartRecvPicEx (history)

snapVars == <<snap, attempt, wanted, ready, output, snaps, failed>>

\* Where a hwsnap is once it has asked for a picture.
Asked == {"wait", "query", "get", "release", "write", "stop", "done"}

SnapTypeOK ==
  /\ snap \in [Snappers -> {"idle", "start"} \cup Asked]
  /\ attempt \in [Snappers -> 1..2]
  /\ wanted \in 0..1 /\ ready \in Nat
  /\ output \in [Snappers -> 0..1]
  /\ snaps \in 0..MaxSnaps /\ failed \in Nat

SnapInit ==
  /\ snap = [s \in Snappers |-> "idle"] /\ attempt = [s \in Snappers |-> 1]
  /\ wanted = 0 /\ ready = 0
  /\ output = [s \in Snappers |-> 0]
  /\ snaps = 0 /\ failed = 0

\* The channel is there from the end of the bring-up to SYS_Exit.
SnapUp == "venc" \in up /\ done = Len(BringUp)

At(s, place) == snap' = [snap EXCEPT ![s] = place]

-----------------------------------------------------------------------------

\* The shell: hwsnap || hwsnap.
TakeSnapshot(s) ==
  /\ snap[s] = "idle" /\ snaps < MaxSnaps
  /\ snaps' = snaps + 1
  /\ output' = [output EXCEPT ![s] = 0]
  /\ At(s, "start")
  /\ UNCHANGED <<attempt, wanted, ready, failed>>

\* What the shell does when an attempt has failed.
Again(s) ==
  /\ attempt' = [attempt EXCEPT ![s] = 3 - @]
  /\ At(s, IF attempt[s] = 1 THEN "start" ELSE "idle")

\* snapshot.disabled is there: a success, without a picture.
SnapDisabled(s) ==
  /\ snap[s] = "start"
  /\ attempt' = [attempt EXCEPT ![s] = 1]
  /\ At(s, "idle")
  /\ UNCHANGED <<wanted, ready, output, snaps, failed>>

\* StartRecvPicEx: one picture.  Without a channel it fails, and while one is still
\* wanted it may be refused; nothing is stopped then.
SnapRefused(s) ==
  /\ snap[s] = "start" /\ (~SnapUp \/ wanted = 1)
  /\ Again(s)
  /\ UNCHANGED <<wanted, ready, output, snaps, failed>>

SnapStart(s) ==
  /\ snap[s] = "start" /\ SnapUp
  /\ wanted' = 1
  /\ At(s, "wait")
  /\ UNCHANGED <<attempt, ready, output, snaps, failed>>

\* The encoder makes the picture out of the next frame.
Encode ==
  /\ SnapUp /\ wanted = 1
  /\ wanted' = 0 /\ ready' = ready + 1
  /\ UNCHANGED <<snap, attempt, output, snaps, failed>>

\* Mutant: the way out after a time-out does not lead past StopRecvPic.
SnapFailsAtOnce(s) ==
  /\ failed' = failed + 1
  /\ Again(s)

\* Every way out after StartRecvPicEx leads to StopRecvPic.
SnapFails(s) ==
  /\ failed' = failed + 1
  /\ At(s, "stop")
  /\ UNCHANGED attempt

\* select and Query: there is a picture; or there is none within the time, or it is
\* gone by the second look, or a call fails.
SnapWait(s) ==
  /\ snap[s] \in {"wait", "query"}
  /\ \/ /\ SnapUp /\ ready > 0
        /\ At(s, IF snap[s] = "wait" THEN "query" ELSE "get")
        /\ UNCHANGED <<attempt, failed>>
     \/ SnapFails(s)
  /\ UNCHANGED <<wanted, ready, output, snaps>>

\* GetStream takes the oldest picture, or fails.
SnapGet(s) ==
  /\ snap[s] = "get"
  /\ \/ SnapUp /\ ready > 0 /\ At(s, "release") /\ ready' = ready - 1
        /\ UNCHANGED <<attempt, failed>>
     \/ SnapFails(s) /\ UNCHANGED ready
  /\ UNCHANGED <<wanted, output, snaps>>

\* The picture is copied and given back before a byte of it is written; there may be
\* no memory for the copy.
SnapRelease(s) ==
  /\ snap[s] = "release"
  /\ \/ At(s, "write") /\ UNCHANGED <<attempt, failed>>
     \/ SnapFails(s)
  /\ UNCHANGED <<wanted, ready, output, snaps>>

\* Whatever fwrite says, this counts as a success.
SnapWrite(s) ==
  /\ snap[s] = "write"
  /\ output' = [output EXCEPT ![s] = @ + 1]
  /\ At(s, "done")
  /\ UNCHANGED <<attempt, wanted, ready, snaps, failed>>

\* StopRecvPic; what is in the buffer stays there.
SnapStop(s) ==
  /\ snap[s] \in {"stop", "done"}
  /\ wanted' = 0
  /\ IF snap[s] = "stop" THEN Again(s)
     ELSE At(s, "idle") /\ attempt' = [attempt EXCEPT ![s] = 1]
  /\ UNCHANGED <<ready, output, snaps, failed>>

Snapshots ==
  /\ \/ Encode
     \/ \E s \in Snappers :
          \/ TakeSnapshot(s) \/ SnapDisabled(s) \/ SnapRefused(s) \/ SnapStart(s)
          \/ SnapWait(s) \/ SnapGet(s)
          \/ SnapRelease(s) \/ SnapWrite(s) \/ SnapStop(s)
  /\ UNCHANGED mainVars

SnapSpec == SnapInit /\ [][Snapshots]_snapVars

-----------------------------------------------------------------------------
(* Properties *)

\* However snapshots overlap, steal each other's pictures and fail, the channel is
\* left stopped when the last hwsnap has gone; a snapshot gives one picture at
\* most, although hwsnap runs twice; and a picture in the channel is one that a
\* hwsnap on its way still wants, or one that a failed one has left, which the next
\* snapshot then gets instead of its own.
SnapsAccounted ==
  /\ (\A s \in Snappers : snap[s] = "idle") => wanted = 0
  /\ \A s \in Snappers : output[s] <= 1
  /\ ready + wanted
       <= failed + Cardinality({s \in Snappers : snap[s] \in {"wait", "query", "get"}})
=============================================================================
