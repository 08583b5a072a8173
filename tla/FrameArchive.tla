---------------------------- MODULE FrameArchive ----------------------------
(***************************************************************************)
(* FrameArchiver writes frames into day / hour / minute directories with a *)
(* few threads; FrameRetentionGc removes the directories that are too old. *)
(* They share the disk and no lock.  One unit of time is a minute: bucket  *)
(* ends and the cutoff are whole minutes apart, so a scan in the seconds   *)
(* of minute n decides as one at its start.                                *)
(***************************************************************************)
EXTENDS Integers, Sequences

CONSTANTS
    Writers,           \* threads of the archiver
    ArchiveCapacity,   \* queue_capacity
    SaveInterval,      \* save_interval
    HourLen, DayLen,   \* minutes of an hour and of a day
    MaxAge,            \* max_age_minutes
    MaxShots, MaxTime  \* bounds: frames submitted, length of the behaviour

ASSUME ArchiveAssumption ==
    HourLen \in Nat \ {0} /\ DayLen \in Nat \ {0} /\ MaxAge \in Nat

VARIABLES
    clock,
    shots,     \* frames submitted, frame_seq of the last one
    aqueue,    \* queue_: frames [seq, at]
    writer,    \* thread -> [pc, frame]; pc "idle" | "day" | "hour" | "minute" | "tmp" | "rename" | "done"
    astop,     \* the archiver's stop_
    dirs,      \* directories on disk: [level, at]
    files,     \* frames on disk
    written,   \* frames renamed to their final name so far
    gc         \* the collector: [pc, cutoff, days, hours, minutes, day, hour]

archiveVars == <<clock, shots, aqueue, writer, astop, dirs, files, written, gc>>

\* frame_layout: the directory of each level that holds time t.
Start(level, t) == CASE level = "day"  -> t - (t % DayLen)
                     [] level = "hour" -> t - (t % HourLen)
                     [] level = "minute" -> t
Dir(level, t) == [level |-> level, at |-> Start(level, t)]
Parent == [hour |-> "day", minute |-> "hour"]
LenOf  == [day |-> DayLen, hour |-> HourLen, minute |-> 1]

NoShot == [seq |-> 0, at |-> 0]
Idle == [pc |-> "idle", cutoff |-> 0, days |-> {}, hours |-> {}, minutes |-> {},
         day |-> 0, hour |-> 0]
AtRest == [pc |-> "idle", frame |-> NoShot]

ArchiveInit ==
    /\ clock = 0 /\ shots = 0 /\ aqueue = <<>>
    /\ writer = [w \in Writers |-> AtRest]
    /\ astop = FALSE
    /\ dirs = {} /\ files = {} /\ written = {}
    /\ gc = Idle

Minute ==
    /\ clock < MaxTime
    /\ clock' = clock + 1
    /\ UNCHANGED <<shots, aqueue, writer, astop, dirs, files, written, gc>>

-----------------------------------------------------------------------------
(* FrameArchiver.                                                          *)

\* ArchiveRawStage::process and FrameArchiver::submit: every SaveInterval-th
\* frame that could be brought to host memory is queued under the bucket of
\* its capture time; a full queue drops it and advertises nothing.
Submit(at, readable) ==
    /\ ~astop /\ shots < MaxShots
    /\ shots' = shots + 1
    /\ aqueue' = IF readable /\ shots' % SaveInterval = 0 /\ Len(aqueue) < ArchiveCapacity
                 THEN Append(aqueue, [seq |-> shots', at |-> at]) ELSE aqueue
    /\ UNCHANGED <<clock, writer, astop, dirs, files, written, gc>>

writerRest == <<clock, shots, astop, gc>>

\* workerLoop: the next frame, or the end once stopped and empty.
Pop(w) ==
    /\ writer[w].pc = "idle"
    /\ \/ /\ aqueue # <<>>
          /\ writer' = [writer EXCEPT ![w] = [pc |-> "day", frame |-> Head(aqueue)]]
          /\ aqueue' = Tail(aqueue)
       \/ /\ aqueue = <<>> /\ astop
          /\ writer' = [writer EXCEPT ![w].pc = "done"]
          /\ UNCHANGED aqueue
    /\ UNCHANGED <<writerRest, dirs, files, written>>

\* create_directories, one level at a time: a level whose parent has gone
\* cannot be made, and the frame is given up.
MakeDir(w) ==
    LET level == writer[w].pc
        t     == writer[w].frame.at
        next  == [day |-> "hour", hour |-> "minute", minute |-> "tmp"]
    IN  /\ level \in {"day", "hour", "minute"}
        /\ IF level = "day" \/ Dir(Parent[level], t) \in dirs
           THEN /\ dirs' = dirs \cup {Dir(level, t)}
                /\ writer' = [writer EXCEPT ![w].pc = next[level]]
           ELSE writer' = [writer EXCEPT ![w] = AtRest] /\ UNCHANGED dirs
        /\ UNCHANGED <<writerRest, aqueue, files, written>>

\* imwrite of the temporary name, and then rename: each fails without the
\* directory, or for want of space.
WriteTmp(w) ==
    /\ writer[w].pc = "tmp"
    /\ \/ Dir("minute", writer[w].frame.at) \in dirs /\ writer' = [writer EXCEPT ![w].pc = "rename"]
       \/ writer' = [writer EXCEPT ![w] = AtRest]
    /\ UNCHANGED <<writerRest, aqueue, dirs, files, written>>

Rename(w) ==
    /\ writer[w].pc = "rename"
    /\ writer' = [writer EXCEPT ![w] = AtRest]
    /\ IF Dir("minute", writer[w].frame.at) \in dirs
       THEN files' = files \cup {writer[w].frame} /\ written' = written \cup {writer[w].frame}
       ELSE UNCHANGED <<files, written>>
    /\ UNCHANGED <<writerRest, aqueue, dirs>>

\* The destructor: workers end when the queue is empty.
StopArchiver ==
    /\ ~astop /\ astop' = TRUE
    /\ UNCHANGED <<clock, shots, aqueue, writer, dirs, files, written, gc>>

-----------------------------------------------------------------------------
(* FrameRetentionGc::runOnce.                                              *)

\* What is under directory d.
Under(d, t) == Start(d.level, t) = d.at
SubDirs(level, d) == {e.at : e \in {x \in dirs : x.level = level /\ Under(d, x.at)}}
Empty(d) == d.level \in {"day", "hour"} /\ ~\E x \in dirs :
                x.level \in DOMAIN Parent /\ Parent[x.level] = d.level /\ Under(d, x.at)

\* remove_all: everything below d, or nothing when it throws.
RemoveTree(d) ==
    \/ /\ dirs' = {x \in dirs : ~(Under(d, x.at) /\ LenOf[x.level] <= LenOf[d.level])}
       /\ files' = {f \in files : ~Under(d, f.at)}
    \/ UNCHANGED <<dirs, files>>

\* Mutant: a directory goes when its first minute is too old.
ExpiredByStart(level, at) == at <= gc.cutoff

\* A directory is too old when its last minute is.
Expired(level, at) == at + LenOf[level] <= gc.cutoff

gcRest == <<clock, shots, aqueue, writer, astop, written>>

Scan ==
    /\ gc.pc = "idle"
    /\ gc' = [gc EXCEPT !.pc = "days", !.cutoff = clock - MaxAge,
                        !.days = {x.at : x \in {y \in dirs : y.level = "day"}}]
    /\ UNCHANGED <<gcRest, dirs, files>>

\* The next entry of a level: removed whole, or entered.
Visit(level, todo, sub, below, at) ==
    LET d == [level |-> level, at |-> at] IN
    IF Expired(level, at)
    THEN gc' = [gc EXCEPT ![todo] = @ \ {at}] /\ RemoveTree(d)
    ELSE /\ gc' = [gc EXCEPT ![todo] = @ \ {at}, ![sub] = SubDirs(below, d), !.pc = sub, ![level] = at]
         /\ UNCHANGED <<dirs, files>>

ScanDay ==
    /\ gc.pc = "days"
    /\ IF gc.days = {} THEN gc' = Idle /\ UNCHANGED <<dirs, files>>
       ELSE \E at \in gc.days : Visit("day", "days", "hours", "hour", at)
    /\ UNCHANGED gcRest

\* After its last hour a day that looks empty will be removed.
ScanHour ==
    /\ gc.pc = "hours"
    /\ IF gc.hours = {}
       THEN /\ gc' = [gc EXCEPT !.pc = IF Empty(Dir("day", gc.day)) THEN "rmday" ELSE "days"]
            /\ UNCHANGED <<dirs, files>>
       ELSE \E at \in gc.hours : Visit("hour", "hours", "minutes", "minute", at)
    /\ UNCHANGED gcRest

ScanMinute ==
    /\ gc.pc = "minutes"
    /\ IF gc.minutes = {}
       THEN /\ gc' = [gc EXCEPT !.pc = IF Empty(Dir("hour", gc.hour)) THEN "rmhour" ELSE "hours"]
            /\ UNCHANGED <<dirs, files>>
       ELSE \E at \in gc.minutes :
              /\ gc' = [gc EXCEPT !.minutes = @ \ {at}]
              /\ IF Expired("minute", at) THEN RemoveTree(Dir("minute", at))
                 ELSE UNCHANGED <<dirs, files>>
    /\ UNCHANGED gcRest

\* fs::remove on the directory found empty a moment ago: it refuses one that
\* has an entry by now.
RemoveEmpty ==
    LET d == IF gc.pc = "rmday" THEN Dir("day", gc.day) ELSE Dir("hour", gc.hour) IN
    /\ gc.pc \in {"rmday", "rmhour"}
    /\ dirs' = IF Empty(d) THEN dirs \ {d} ELSE dirs
    /\ gc' = [gc EXCEPT !.pc = IF @ = "rmday" THEN "days" ELSE "hours"]
    /\ UNCHANGED <<gcRest, files>>

ArchiveNext ==
    \/ Minute \/ StopArchiver
    \/ \E at \in {clock, clock - 1} \cap Nat, readable \in BOOLEAN : Submit(at, readable)
    \/ \E w \in Writers : Pop(w) \/ MakeDir(w) \/ WriteTmp(w) \/ Rename(w)
    \/ Scan \/ ScanDay \/ ScanHour \/ ScanMinute \/ RemoveEmpty

-----------------------------------------------------------------------------
\* A frame that reached its final name stays there for max_age_minutes,
\* whatever the collector looks at while directories come and go.
FreshSurvives == \A f \in written : f.at + 1 + MaxAge > clock => f \in files
=============================================================================
