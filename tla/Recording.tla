----------------------------- MODULE Recording ------------------------------
(***************************************************************************)
(* The native recorder's files and the scripts that share them: record.sh  *)
(* (ffmpeg) writes one segment a minute into a directory per hour,         *)
(* wd_record.sh makes the directories and restarts the recorder,           *)
(* ftppush.sh uploads what is newer than its watermark and tidies up,      *)
(* clean_records.sh, which cron starts at every full hour, removes the     *)
(* directory that was modified longest ago while the storage is too full,  *)
(* and the events page removes clips and directories.                      *)
(*                                                                         *)
(* Removing a directory (rm -rf) is two steps, its entries and then itself *)
(* if none came in between; so is a write to the watermark's file, which   *)
(* echo's redirection empties first.                                       *)
(*                                                                         *)
(* Time is counted in minutes.  A segment is the n-th one opened in its    *)
(* minute; its name tells the minute, which is all ftppush.sh looks at.    *)
(***************************************************************************)
EXTENDS Integers, Sequences, SequencesExt

CONSTANTS
  HourLen,    \* minutes in an hour
  MaxTime,    \* bound: the last minute
  Uploads,    \* the values of services.ftp_upload ENABLED that are looked at
  MaxIncidents  \* bound: how often in all ffmpeg dies by itself, ftppush.sh is called
                \* beside the running service, or the events page deletes something

ASSUME RecordingAssumption ==
  /\ HourLen \in Nat \ {0}
  /\ Uploads \subseteq BOOLEAN
  /\ MaxTime \in Nat /\ MaxIncidents \in Nat

Minute == 0..MaxTime
Hour(t) == t \div HourLen
Hours == 0..(Hour(MaxTime) + 1)
Segment == [t : Minute, n : 1..(MaxIncidents + 1)]
NoSegment == [t |-> -1, n |-> 0]
NoHour == -1
Never == -1             \* LAST_FILE_SENT = 1970
Lost == MaxTime + 1     \* LAST_FILE_SENT is empty: every comparison with it fails

VARIABLES
  upload,    \* services.ftp_upload ENABLED (configuration)
  delete,    \* FILE_DELETE_AFTER_UPLOAD (configuration)
  now,       \* the minute
  ticked,    \* wd_record.sh has run in this minute, as every 20 s it does
  age,       \* the hour directories, the one modified longest ago first
  files,     \* the segments in them
  rec,       \* the recorder: off, starting, on
  seg,       \* the segment ffmpeg writes
  nth,       \* segments opened in this minute
  ftp,       \* where ftppush.sh is
  todo,      \* L_FILE_LIST, what is left of it
  tidy,      \* the directories still to be tidied
  cur,       \* file
  mark,      \* LAST_FILE_SENT_FILE
  call,      \* where a second call of ftppush.sh is
  own,       \* its LAST_FILE_SENT
  clean,     \* where clean_records.sh is
  victim,    \* its OLD_DIR
  web,       \* the directory eventsdirdel.sh removes
  sent, failed,   \* what ftpput has and has not sent (history)
  killed,         \* ftppush.sh was killed (history)
  raced,          \* two calls of it met over the watermark (history)
  seen,           \* what was in OLD_DIR when ls looked (history)
  removed,        \* hours whose directory rm removed (history)
  deaths, calls, deletes

conf == <<upload, delete>>
recVars == <<rec, seg, nth>>
ftpVars == <<ftp, todo, tidy, cur, mark, call, own, sent, failed, killed, raced>>
cleanVars == <<clean, victim, seen>>
bounds == <<deaths, calls, deletes>>
Budget == deaths + calls + deletes < MaxIncidents
vars == <<conf, now, ticked, age, files, recVars, ftpVars, cleanVars, web, removed, bounds>>

Dirs == {age[k] : k \in 1..Len(age)}
In(d) == {f \in files : Hour(f.t) = d}

TypeOK ==
  /\ upload \in BOOLEAN /\ delete \in BOOLEAN
  /\ now \in Minute /\ ticked \in BOOLEAN
  /\ age \in Seq(Hours) /\ \A j, k \in 1..Len(age) : age[j] = age[k] => j = k
  /\ files \subseteq Segment /\ \A f \in files : Hour(f.t) \in Dirs
  /\ rec \in {"off", "starting", "on"}
  /\ seg \in Segment \cup {NoSegment}
  /\ nth \in 0..(MaxIncidents + 1)
  /\ ftp \in {"sleep", "next", "put", "mark", "write", "drop", "tidy"}
  /\ todo \subseteq Segment /\ tidy \subseteq Hours
  /\ cur \in Segment \cup {NoSegment}
  /\ mark \in Minute \cup {Never, Lost} /\ own \in Minute \cup {Never, Lost}
  /\ call \in {"none", "read", "cut", "done"}
  /\ clean \in {"off", "df", "rm", "rmdir"}
  /\ victim \in Hours \cup {NoHour} /\ (clean \in {"rm", "rmdir"} => victim # NoHour)
  /\ web \in Hours \cup {NoHour}
  /\ sent \subseteq Segment /\ failed \subseteq Segment /\ seen \subseteq Segment
  /\ killed \in BOOLEAN /\ raced \in BOOLEAN
  /\ removed \subseteq Hours
  /\ deaths \in 0..MaxIncidents /\ calls \in 0..MaxIncidents /\ deletes \in 0..MaxIncidents

Init ==
  /\ upload \in Uploads /\ delete \in BOOLEAN
  /\ delete => upload             \* without uploads it does not matter
  /\ now = 0 /\ ticked = FALSE
  /\ age = <<>> /\ files = {}
  /\ rec = "off" /\ seg = NoSegment /\ nth = 0
  /\ ftp = "sleep" /\ todo = {} /\ tidy = {} /\ cur = NoSegment /\ mark = Never
  /\ call = "none" /\ own = Never
  /\ clean = "off" /\ victim = NoHour /\ web = NoHour
  /\ sent = {} /\ failed = {} /\ seen = {} /\ removed = {}
  /\ killed = FALSE /\ raced = FALSE
  /\ deaths = 0 /\ calls = 0 /\ deletes = 0

\* A directory that is not there any more; one that is modified, when an entry comes
\* or goes; and mkdir -p, which leaves the time of one that exists.
Without(a, d) ==
  IF \E k \in 1..Len(a) : a[k] = d THEN RemoveAt(a, CHOOSE k \in 1..Len(a) : a[k] = d) ELSE a
Modified(a, d) == Append(Without(a, d), d)
MkDir(a, d) == IF \E k \in 1..Len(a) : a[k] = d THEN a ELSE Append(a, d)

\* rm -rf: the entries it reads go, which modifies the directory; then the directory,
\* unless something has come in again.
RmEntries(d) ==
  /\ files' = files \ In(d)
  /\ age' = IF In(d) = {} THEN age ELSE Modified(age, d)
RmDir(d) ==
  IF In(d) = {}
  THEN age' = Without(age, d) /\ removed' = removed \cup {d}
  ELSE UNCHANGED <<age, removed>>

-----------------------------------------------------------------------------
(* A minute passes.  wd_record.sh runs three times a minute, ffmpeg starts a *)
(* new segment at the first frame of the minute, cron runs at minute 0.      *)

MinutePasses ==
  /\ now < MaxTime
  /\ ticked
  /\ rec = "on" => seg.t = now
  /\ now' = now + 1
  /\ ticked' = FALSE
  /\ nth' = 0
  /\ clean' = IF clean = "off" /\ now' % HourLen = 0 THEN "df" ELSE clean
  /\ UNCHANGED <<conf, age, files, rec, seg, ftpVars, victim, seen, web, removed, bounds>>

-----------------------------------------------------------------------------
(* wd_record.sh and record.sh *)

rest == <<conf, now, ftpVars, cleanVars, web, removed>>

\* check_record, on the directories a: record.sh up to the start of ffmpeg.
CheckRecord(a) ==
  IF rec = "off"
  THEN rec' = "starting" /\ age' = MkDir(a, Hour(now))
  ELSE age' = a /\ UNCHANGED rec

\* Mutant: only the directory of the current hour is made.
WdTickNow ==
  /\ CheckRecord(MkDir(age, Hour(now)))
  /\ ticked' = TRUE
  /\ UNCHANGED <<files, seg, nth, bounds, rest>>

\* A round of wd_record.sh: ensure_dirs makes the current hour's directory and the
\* next one's, then check_record looks after the recorder.
WdTick ==
  /\ CheckRecord(MkDir(MkDir(age, Hour(now)), Hour(now + HourLen)))
  /\ ticked' = TRUE
  /\ UNCHANGED <<files, seg, nth, bounds, rest>>

\* ffmpeg opens a segment, its first or the one of a new minute.  It cannot make
\* a directory: without one it ends.
OpenSegment ==
  /\ rec = "starting" \/ (rec = "on" /\ seg.t < now)
  /\ IF Hour(now) \in Dirs
     THEN /\ rec' = "on"
          /\ nth' = nth + 1
          /\ seg' = [t |-> now, n |-> nth + 1]
          /\ files' = files \cup {seg'}
          /\ age' = Modified(age, Hour(now))
     ELSE /\ rec' = "off"
          /\ seg' = NoSegment
          /\ UNCHANGED <<nth, files, age>>
  /\ UNCHANGED <<ticked, bounds, rest>>

\* ffmpeg dies: the stream went away, or there was no memory.
RecorderDies ==
  /\ rec # "off" /\ Budget
  /\ rec' = "off" /\ seg' = NoSegment
  /\ deaths' = deaths + 1
  /\ UNCHANGED <<ticked, age, files, nth, calls, deletes, rest>>

-----------------------------------------------------------------------------
(* ftppush.sh *)

ftpRest == <<conf, now, ticked, recVars, cleanVars, web, removed>>
callVars == <<call, own, killed>>

\* checkFiles takes the list of all segments.
FtpList ==
  /\ upload /\ ftp = "sleep" /\ files # {}
  /\ ftp' = "next"
  /\ todo' = files
  /\ UNCHANGED <<age, files, tidy, cur, mark, sent, failed, raced, callVars, bounds, ftpRest>>

\* Mutant: a file of the minute that was sent last is taken for a new one.
FtpNextAgain(f) ==
  /\ ftp = "next" /\ f \in todo
  /\ \A g \in todo : f.t < g.t \/ (f.t = g.t /\ f.n <= g.n)
  /\ todo' = todo \ {f}
  /\ IF f.t >= mark
     THEN ftp' = "put" /\ cur' = f
     ELSE UNCHANGED <<ftp, cur>>
  /\ raced' = (raced \/ mark = Lost)
  /\ UNCHANGED <<age, files, tidy, mark, sent, failed, callVars, bounds, ftpRest>>

\* The next file of the list, which is sorted by name: it is new if its minute is
\* after the watermark's.  (The list stays unsorted on a system without sort; this
\* one has it.)
FtpNext(f) ==
  /\ ftp = "next" /\ f \in todo
  /\ \A g \in todo : f.t < g.t \/ (f.t = g.t /\ f.n <= g.n)
  /\ todo' = todo \ {f}
  /\ IF f.t > mark
     THEN ftp' = "put" /\ cur' = f
     ELSE UNCHANGED <<ftp, cur>>
  /\ raced' = (raced \/ mark = Lost)
  /\ UNCHANGED <<age, files, tidy, mark, sent, failed, callVars, bounds, ftpRest>>

\* uploadToFtp: the file may be gone, and ftpput may fail.
FtpPut(ok) ==
  /\ ftp = "put"
  /\ ok => cur \in files
  /\ IF ok
     THEN ftp' = "mark" /\ sent' = sent \cup {cur} /\ UNCHANGED failed
     ELSE ftp' = "next" /\ failed' = failed \cup {cur} /\ UNCHANGED sent
  /\ UNCHANGED <<age, files, todo, tidy, cur, mark, raced, callVars, bounds, ftpRest>>

\* echo $LAST_FILE_SENT > file: the redirection empties the file.
FtpMark ==
  /\ ftp = "mark"
  /\ ftp' = "write"
  /\ mark' = Lost
  /\ raced' = (raced \/ call # "none")
  /\ UNCHANGED <<age, files, todo, tidy, cur, sent, failed, callVars, bounds, ftpRest>>

\* Mutant: the watermark is set to the present.
FtpWriteNow ==
  /\ ftp = "write"
  /\ ftp' = "drop"
  /\ mark' = now
  /\ raced' = (raced \/ call # "none")
  /\ UNCHANGED <<age, files, todo, tidy, cur, sent, failed, callVars, bounds, ftpRest>>

\* Then echo writes.
FtpWrite ==
  /\ ftp = "write"
  /\ ftp' = "drop"
  /\ mark' = cur.t
  /\ raced' = (raced \/ call # "none")
  /\ UNCHANGED <<age, files, todo, tidy, cur, sent, failed, callVars, bounds, ftpRest>>

FtpDrop ==
  /\ ftp = "drop"
  /\ ftp' = "next"
  /\ IF delete /\ cur \in files
     THEN files' = files \ {cur} /\ age' = Modified(age, Hour(cur.t))
     ELSE UNCHANGED <<files, age>>
  /\ UNCHANGED <<todo, tidy, cur, mark, sent, failed, raced, callVars, bounds, ftpRest>>

\* The list is through; the directories are listed.
FtpListDirs ==
  /\ ftp = "next" /\ todo = {}
  /\ ftp' = "tidy"
  /\ tidy' = Dirs
  /\ cur' = NoSegment
  /\ UNCHANGED <<age, files, todo, mark, sent, failed, raced, callVars, bounds, ftpRest>>

\* A directory without a file is removed; rmdir spares one that has got a file
\* since it was looked at.
FtpTidy(d) ==
  /\ ftp = "tidy" /\ d \in tidy /\ \A e \in tidy : d <= e
  /\ tidy' = tidy \ {d}
  /\ age' = IF In(d) = {} THEN Without(age, d) ELSE age
  /\ UNCHANGED <<ftp, files, todo, cur, mark, sent, failed, raced, callVars, bounds, ftpRest>>

FtpSleep ==
  /\ ftp = "tidy" /\ tidy = {}
  /\ ftp' = "sleep"
  /\ UNCHANGED <<age, files, todo, tidy, cur, mark, sent, failed, raced, callVars, bounds, ftpRest>>

\* Another call of ftppush.sh, start or stop.  Before it asks for the lock or kills
\* anything it reads the watermark and writes it back.
callRest == <<ftp, todo, tidy, cur, sent, failed, killed, raced, age, files, deaths, deletes>>

CallRead ==
  /\ call = "none" /\ Budget
  /\ call' = "read" /\ own' = mark
  /\ calls' = calls + 1
  /\ UNCHANGED <<mark, callRest, ftpRest>>

CallCut ==
  /\ call = "read"
  /\ call' = "cut" /\ mark' = Lost
  /\ UNCHANGED <<own, calls, callRest, ftpRest>>

CallWrite ==
  /\ call = "cut"
  /\ call' = "done" /\ mark' = own /\ own' = Never
  /\ UNCHANGED <<calls, callRest, ftpRest>>

\* start: the service runs and holds the lock.
CallRefused ==
  /\ call = "done"
  /\ call' = "none"
  /\ UNCHANGED <<mark, own, calls, callRest, ftpRest>>

\* stop: kill -9, wherever the service is; after which it is started again, finds the
\* watermark as it is and writes it back unhurried.
FtpKill ==
  /\ call = "done"
  /\ call' = "none"
  /\ killed' = TRUE
  /\ ftp' = "sleep" /\ todo' = {} /\ tidy' = {} /\ cur' = NoSegment
  /\ UNCHANGED <<age, files, mark, own, sent, failed, raced, bounds, ftpRest>>

-----------------------------------------------------------------------------
(* clean_records.sh *)

cleanRest == <<conf, now, ticked, recVars, ftpVars, web, bounds>>

\* Mutant: ls without -t, and the last by name.
CleanPickByName ==
  /\ clean = "df" /\ age # <<>>
  /\ clean' = "rm"
  /\ victim' = CHOOSE x \in Dirs : \A y \in Dirs : y <= x
  /\ seen' = In(victim')
  /\ UNCHANGED <<age, files, removed, cleanRest>>

\* Too full: the directory that was modified longest ago is to go.
CleanPick ==
  /\ clean = "df" /\ age # <<>>
  /\ clean' = "rm"
  /\ victim' = Head(age)
  /\ seen' = In(Head(age))
  /\ UNCHANGED <<age, files, removed, cleanRest>>

CleanUnlink ==
  /\ clean = "rm"
  /\ clean' = "rmdir"
  /\ RmEntries(victim)
  /\ seen' = {}
  /\ UNCHANGED <<victim, removed, cleanRest>>

CleanRmdir ==
  /\ clean = "rmdir"
  /\ clean' = "df" /\ victim' = NoHour
  /\ RmDir(victim)
  /\ UNCHANGED <<files, seen, cleanRest>>

\* Room enough, or nothing left to remove.
CleanEnd ==
  /\ clean = "df"
  /\ clean' = "off"
  /\ UNCHANGED <<age, files, victim, seen, removed, cleanRest>>

-----------------------------------------------------------------------------
(* The events page.  Deleting everything is deleting each directory in turn. *)

webRest == <<conf, now, ticked, recVars, ftpVars, cleanVars, deaths, calls>>

\* eventsfiledel.sh
WebDelete(f) ==
  /\ Budget
  /\ files' = files \ {f} /\ age' = Modified(age, Hour(f.t))
  /\ deletes' = deletes + 1
  /\ UNCHANGED <<web, removed, webRest>>

\* eventsdirdel.sh
WebUnlink(d) ==
  /\ web = NoHour /\ Budget
  /\ web' = d
  /\ RmEntries(d)
  /\ deletes' = deletes + 1
  /\ UNCHANGED <<removed, webRest>>

WebRmdir ==
  /\ web # NoHour
  /\ web' = NoHour
  /\ RmDir(web)
  /\ UNCHANGED <<files, deletes, webRest>>

-----------------------------------------------------------------------------
Record == WdTick \/ OpenSegment \/ RecorderDies

Ftp == \/ FtpList \/ (\E f \in todo : FtpNext(f))
       \/ (\E ok \in BOOLEAN : FtpPut(ok)) \/ FtpMark \/ FtpWrite \/ FtpDrop
       \/ FtpListDirs \/ (\E d \in tidy : FtpTidy(d)) \/ FtpSleep

Call == CallRead \/ CallCut \/ CallWrite \/ CallRefused \/ FtpKill

Clean == CleanPick \/ CleanUnlink \/ CleanRmdir \/ CleanEnd

Web == (\E f \in files : WebDelete(f)) \/ (\E d \in Dirs : WebUnlink(d)) \/ WebRmdir

Next == MinutePasses \/ Record \/ Ftp \/ Call \/ Clean \/ Web

Spec == Init /\ [][Next]_vars

-----------------------------------------------------------------------------
(* Properties *)

\* At the top of the hour the recorder finds the directory it needs, if nobody but
\* wd_record.sh handles empty directories: uploads are off (ftppush.sh removes the
\* one made in advance) and no rm has got as far as this hour.
RolloverReady ==
  rec = "on" /\ seg.t < now /\ ~upload /\ Hour(now) \notin removed => Hour(now) \in Dirs

\* No segment is uploaded twice, whatever the recorder, the cleaner, the events page
\* and a watermark of one minute's resolution do, unless ftppush.sh was killed or a
\* second call of it, refused or not, wrote back a watermark that was being replaced.
NoDoubleUpload == ftp = "put" /\ ~killed /\ ~raced => cur \notin sent

\* What the watermark has passed was sent, or its upload failed, or it is a further
\* segment of a minute of which one was sent: through kills and restarts ftppush.sh
\* skips nothing else for good, however old its list is, as long as the file of the
\* watermark is whole whenever it is compared with, and one call at a time writes it.
PassedIsKnown ==
  mark # Lost /\ ~raced => \A f \in files :
    f.t <= mark => f \in sent \cup failed \/ \E g \in sent : g.t = f.t

\* "The oldest recordings are removed": what was in the directory when the cleaner
\* chose it goes only if no older recording stays, and none of the same hour does.  It
\* is not so for a segment that is opened between ls and rm; nor when ftppush.sh or
\* the events page delete files, which makes an old directory look new.
OldestFirst ==
  [][~delete /\ deletes' = 0 =>
       \A f \in (seen \cap files) \ files', g \in files' : Hour(f.t) < Hour(g.t)]_vars

\* "The oldest recordings are removed automatically when space runs low": nothing is
\* removed while an older recording stays, although nobody else deletes anything.
OnlyOldestGo ==
  [][~delete /\ deletes' = 0 =>
       \A f \in files \ files', g \in files' : Hour(f.t) < Hour(g.t)]_vars
=============================================================================
