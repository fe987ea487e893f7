----------------------------- MODULE CampipeMain -----------------------------
(***************************************************************************)
(* The life of a campipe process: main takes its configuration from the    *)
(* environment, brings the media system up one call at a time, starts the  *)
(* threads, sleeps until a signal and takes everything down again, in the  *)
(* order of its err_ labels.                                               *)
(*                                                                         *)
(* What a thread does is the business of its own module; here a thread     *)
(* runs until it ends.                                                     *)
(***************************************************************************)
EXTENDS Integers, Sequences

CONSTANT
  Configs       \* the environments campipe is started in, with their bounds

Thread == {"high", "low", "md", "ao", "ai"}

\* What campipe makes of its environment: motion detection, a model whose amplifier
\* is known, the codec of the microphone, lens correction.  load says which thread
\* is given something to do; the bounds are on the calls that fail, the
\* signals, and the captured frames.
Config == [md : BOOLEAN, ao : BOOLEAN, codec : {"off", "aac", "g711"},
           ldc : BOOLEAN, load : STRING, maxFails : Nat, maxSignals : Nat, maxTaken : Nat]

ASSUME MainAssumption == \A c \in Configs : c \in Config

VARIABLES
  cfg,        \* the environment
  on,         \* md_on, ao_on, ai_on: the optional threads that are wanted
  main,       \* where main is
  done,       \* calls of the bring-up behind it
  up,         \* parts of the media system that are up
  gStop,      \* g_stop
  thread,     \* the threads
  signals,    \* signals sent
  fails       \* calls that failed

mainVars == <<cfg, on, main, done, up, gStop, thread, signals, fails>>

-----------------------------------------------------------------------------
(* The calls, each with the part it belongs to *)

Calls(part, steps) == [i \in DOMAIN steps |-> [part |-> part, call |-> steps[i]]]

IspInit == <<"plugin", "AE_Register", "AWB_Register", "AF_Register", "MemInit",
             "SetWDRMode", "SetPubAttr", "ISP_Init">>

StartViIsp == <<"StartMIPI">> \o IspInit
              \o <<"ISP_Run", "SetDevAttr", "EnableDev", "StartChn", "SetLDCAttr">>

StartH264 == <<"CreateChn", "StartRecvPic", "BindVpss">>
StartJpeg == <<"CreateChn", "BindVpss">>

BringUp ==
  Calls("sys", <<"SYS_Init">>)
    \o Calls("vi", StartViIsp)
    \o Calls("vpss", <<"StartGroup", "VI_BindVpss", "EnableChn", "EnableChn", "EnableChn">>)
    \o Calls("md", <<"EnableChn">>)
    \o Calls("venc", StartH264 \o StartH264 \o StartJpeg \o StartJpeg)
    \o Calls("acodec", <<"CfgAcodec">>)

\* The calls this configuration does not make.
Skipped(c) ==
  \/ c.part = "md" /\ "md" \notin on
  \/ c.part = "acodec" /\ on \cap {"ao", "ai"} = {}
  \/ c.call = "SetLDCAttr" /\ ~cfg.ldc

\* The label a failed call goes to.
ErrLabel(c) == CASE c.part = "sys" -> "exited"
                 [] c.part = "vi"  -> "err_sys"
                 [] c.call = "StartGroup" -> "err_vi"
                 [] OTHER -> "err_vpss"

MainTypeOK ==
  /\ cfg \in Configs
  /\ on \subseteq {"md", "ao", "ai"}
  /\ main \in {"up", "test", "enter", "pause", "join", "stop", "err_vpss",
               "err_vi", "err_sys", "exited"}
  /\ done \in 0..Len(BringUp)
  /\ up \subseteq {"sys", "vi", "vpss", "md", "venc", "acodec"}
  /\ gStop \in BOOLEAN
  /\ thread \in [Thread -> {"none", "run", "ended"}]
  /\ signals \in 0..cfg.maxSignals /\ fails \in 0..cfg.maxFails

\* The optional threads the environment asks for.
Wanted(c) ==
  (IF c.md THEN {"md"} ELSE {}) \cup (IF c.ao THEN {"ao"} ELSE {})
    \cup (IF c.codec # "off" THEN {"ai"} ELSE {})

MainInit ==
  /\ cfg \in Configs
  /\ on = Wanted(cfg)
  /\ main = "up" /\ done = 0 /\ up = {}
  /\ gStop = FALSE
  /\ thread = [t \in Thread |-> "none"]
  /\ signals = 0 /\ fails = 0

-----------------------------------------------------------------------------
(* main *)

NextCall == BringUp[done + 1]

\* The next call works, or is not made.  A part is up with its first call.
CallWorks ==
  /\ main = "up" /\ done < Len(BringUp)
  /\ done' = done + 1
  /\ up' = IF Skipped(NextCall) THEN up ELSE up \cup {NextCall.part}
  /\ UNCHANGED <<cfg, on, main, gStop, thread, signals, fails>>

\* The next call fails.  Without its channel there is no motion detection, without
\* the inner codec no audio in either direction; anything else is the end.
CallFails ==
  /\ main = "up" /\ done < Len(BringUp) /\ ~Skipped(NextCall) /\ fails < cfg.maxFails
  /\ fails' = fails + 1
  /\ IF NextCall.part \in {"md", "acodec"}
     THEN /\ on' = on \ (IF NextCall.part = "md" THEN {"md"} ELSE {"ao", "ai"})
          /\ done' = done + 1
          /\ UNCHANGED main
     ELSE /\ main' = ErrLabel(NextCall)
          /\ UNCHANGED <<on, done>>
  /\ UNCHANGED <<cfg, up, gStop, thread, signals>>

\* pthread_create, for the two streams and for what is wanted.
Spawn ==
  /\ main = "up" /\ done = Len(BringUp)
  /\ thread' = [t \in Thread |-> IF t \in {"high", "low"} \cup on THEN "run" ELSE "none"]
  /\ main' = "test"
  /\ UNCHANGED <<cfg, on, done, up, gStop, signals, fails>>

\* while (!g_stop) pause(): a signal after the test and before pause sleeps wakes
\* nobody.
StopTest ==
  /\ main = "test"
  /\ main' = IF gStop THEN "join" ELSE "enter"
  /\ UNCHANGED <<cfg, on, done, up, gStop, thread, signals, fails>>

Pause ==
  /\ main = "enter"
  /\ main' = "pause"
  /\ UNCHANGED <<cfg, on, done, up, gStop, thread, signals, fails>>

\* on_signal, for SIGTERM and SIGINT.
OnSignal ==
  /\ main # "exited" /\ signals < cfg.maxSignals
  /\ signals' = signals + 1
  /\ gStop' = TRUE
  /\ main' = IF main = "pause" THEN "test" ELSE main
  /\ UNCHANGED <<cfg, on, done, up, thread, fails>>

\* Mutant: the microphone's thread is not waited for.
JoinNotAi ==
  /\ main = "join"
  /\ \A t \in {"high", "low"} \cup (on \ {"ai"}) : thread[t] = "ended"
  /\ main' = "stop"
  /\ UNCHANGED <<cfg, on, done, up, gStop, thread, signals, fails>>

\* The threads are joined, one after the other.
Join ==
  /\ main = "join"
  /\ \A t \in {"high", "low"} \cup on : thread[t] = "ended"
  /\ main' = "stop"
  /\ UNCHANGED <<cfg, on, done, up, gStop, thread, signals, fails>>

\* The encoders stop receiving; then what is below them goes down, each label
\* falling through to the next.  The channels of the encoders are left to SYS_Exit.
TakeDown ==
  /\ \/ main = "stop"     /\ main' = "err_vpss" /\ UNCHANGED up
     \/ main = "err_vpss" /\ main' = "err_vi"   /\ up' = up \ {"vpss", "md"}
     \/ main = "err_vi"   /\ main' = "err_sys"  /\ up' = up \ {"vi"}
     \/ main = "err_sys"  /\ main' = "exited"   /\ up' = up \ {"sys", "venc"}
  /\ UNCHANGED <<cfg, on, done, gStop, thread, signals, fails>>

MainStep == CallWorks \/ Spawn \/ StopTest \/ Pause \/ Join \/ TakeDown

-----------------------------------------------------------------------------
(* The threads, as main sees them *)

Ends(t) == thread' = [thread EXCEPT ![t] = "ended"]

\* A thread that is not modelled further ends when it is told to, or gives up before.
ThreadEnds(t) ==
  /\ thread[t] = "run"
  /\ gStop \/ fails < cfg.maxFails
  /\ fails' = IF gStop THEN fails ELSE fails + 1
  /\ Ends(t)
  /\ UNCHANGED <<cfg, on, main, done, up, gStop, signals>>

MainNext == MainStep \/ CallFails \/ OnSignal \/ \E t \in Thread : ThreadEnds(t)

MainSpec == MainInit /\ [][MainNext]_mainVars

-----------------------------------------------------------------------------
\* What a thread uses.
Uses(t) == CASE t \in {"high", "low"} -> {"sys", "vi", "vpss", "venc"}
             [] t = "md"              -> {"sys", "vi", "vpss", "md"}
             [] t \in {"ao", "ai"}    -> {"sys", "acodec"}

\* Whatever fails on the way up and whenever the signal comes, a thread runs only
\* while all that it uses is up: an optional part that failed has no thread, and
\* nothing is taken down before the last user is gone.
ThreadsOnWhatIsUp == \A t \in Thread : thread[t] = "run" => Uses(t) \subseteq up

\* main sleeps in pause although it has been told to stop.
Overslept == main = "pause" /\ gStop
=============================================================================
