------------------------------ MODULE RecordStore ------------------------------
(***************************************************************************)
(* The recordings of one camera on a controller.  A session has a          *)
(* directory named by its start; its pipeline writes fragments to a ring   *)
(* of MaxRecordFiles file names and, in a goroutine per fragment, enters   *)
(* each in the session's metadata, in memory and then on disk.  A pipeline *)
(* that fails is created again in the same session and chooses its first   *)
(* name from the files it finds.  GetRecordFile searches directories and   *)
(* metadata for a moment.                                                  *)
(*                                                                         *)
(* Time is counted in ticks, at most one fragment each; the goroutine of a *)
(* fragment reads the clock in the fragment's first tick.  Which fragments *)
(* the muxer opens is modelled from the options it is given.               *)
(***************************************************************************)
EXTENDS Naturals, Sequences, FiniteSets, SequencesExt

CONSTANTS MaxRecordFiles,
          MaxTime,      \* bound on the clock
          MaxSessions,  \* bound on the Connects
          MaxFaults     \* bound on failed pipelines and crashes

ASSUME RecordAssumption ==
  MaxRecordFiles \in Nat \ {0} /\ MaxTime \in Nat /\ MaxSessions \in Nat /\ MaxFaults \in Nat

VARIABLES
  now,
  session,    \* the current session's start, or 0
  running,    \* its pipeline is running
  index,      \* the muxer's next fragment index
  opened,     \* when its last fragment was opened, or 0
  filing,     \* the fragment whose goroutine has yet to "push" or "write", or no name
  metadata,   \* the client's record list
  disk,       \* [starts of sessions -> [files, metadata]]
  removing,   \* closed sessions whose directory is about to be removed
  sessions, faults,
  reused      \* history: sessions that wrote over a file out of turn

recordVars == <<now, session, running, index, opened, filing, metadata, disk, removing,
                sessions, faults, reused>>

Names == 0 .. MaxRecordFiles - 1
NoFile == [from |-> 0, to |-> 0]
Filed == [name |-> 0, step |-> "done"]

RecordInit ==
  /\ now = 1 /\ session = 0 /\ running = FALSE /\ index = 0 /\ opened = 0 /\ filing = Filed
  /\ metadata = <<>> /\ disk = [s \in {} |-> NoFile] /\ removing = {}
  /\ sessions = 0 /\ faults = 0 /\ reused = {}

-----------------------------------------------------------------------------
\* A Connect with recording: the session's directory and empty metadata.
StartSession ==
  /\ session = 0 /\ now \notin DOMAIN disk /\ sessions < MaxSessions
  /\ sessions' = sessions + 1
  /\ session' = now /\ metadata' = <<>>
  /\ disk' = [s \in DOMAIN disk \cup {now} |->
                IF s = now THEN [files |-> [n \in Names |-> NoFile], metadata |-> <<>>]
                ELSE disk[s]]
  /\ UNCHANGED <<now, running, index, opened, filing, removing, faults, reused>>

Used(files) == {n \in Names : files[n] # NoFile}

GetIndex(files) ==
  IF Used(files) = {} THEN 0
  ELSE 1 + CHOOSE n \in Used(files) : \A m \in Used(files) : m <= n

\* A pipeline is created, the first or the next after a failure; the pause
\* before the next is longer than filing a fragment takes.
StartPipeline ==
  /\ session # 0 /\ ~running /\ filing = Filed
  /\ LET first == GetIndex(disk[session].files) % MaxRecordFiles
     IN /\ running' = TRUE /\ index' = first
        /\ reused' = IF /\ Used(disk[session].files) = Names
                        /\ Last(metadata).name # (first + MaxRecordFiles - 1) % MaxRecordFiles
                     THEN reused \cup {session} ELSE reused
  /\ opened' = 0
  /\ UNCHANGED <<now, session, filing, metadata, disk, removing, sessions, faults>>

\* The muxer opens the next fragment, over an old one when the names are used up.
OpenFragment ==
  /\ running /\ filing = Filed
  /\ \A n \in Names : disk[session].files[n].from < now
  /\ LET name == index % MaxRecordFiles
     IN /\ disk' = [disk EXCEPT ![session].files[name] = [from |-> now, to |-> now]]
        /\ filing' = [name |-> name, step |-> "push"]
        /\ index' = name + 1
  /\ opened' = now
  /\ UNCHANGED <<now, session, running, metadata, removing, sessions, faults, reused>>

\* InsertSorted, by time.
InsertSorted(list, entry) ==
  InsertAt(list, 1 + Cardinality({i \in DOMAIN list : list[i].time <= entry.time}), entry)

\* Mutant: the newest entry makes room.
PushOverNewest ==
  /\ filing.step = "push"
  /\ metadata' = InsertSorted(IF Len(metadata) = MaxRecordFiles THEN Front(metadata) ELSE metadata,
                              [name |-> filing.name, time |-> now])
  /\ filing' = [filing EXCEPT !.step = "write"]
  /\ UNCHANGED <<now, session, running, index, opened, disk, removing, sessions, faults, reused>>

\* PushRecord; the oldest entry makes room.
PushRecord ==
  /\ filing.step = "push"
  /\ metadata' = InsertSorted(IF Len(metadata) = MaxRecordFiles THEN Tail(metadata) ELSE metadata,
                              [name |-> filing.name, time |-> now])
  /\ filing' = [filing EXCEPT !.step = "write"]
  /\ UNCHANGED <<now, session, running, index, opened, disk, removing, sessions, faults, reused>>

WriteMetadata ==
  /\ filing.step = "write"
  /\ disk' = [disk EXCEPT ![session].metadata = metadata]
  /\ filing' = Filed
  /\ UNCHANGED <<now, session, running, index, opened, metadata, removing, sessions, faults, reused>>

\* The pipeline fails; it will be created again.
FailPipeline ==
  /\ running /\ faults < MaxFaults
  /\ running' = FALSE /\ index' = 0 /\ opened' = 0 /\ faults' = faults + 1
  /\ UNCHANGED <<now, session, filing, metadata, disk, removing, sessions, reused>>

\* Close.  A pipeline that runs ends and its callback removes the directory;
\* the directory of a client that is between two pipelines stays.
CloseSession ==
  /\ session # 0 /\ filing = Filed
  /\ session' = 0 /\ running' = FALSE /\ index' = 0 /\ opened' = 0 /\ metadata' = <<>>
  /\ removing' = IF running THEN removing \cup {session} ELSE removing
  /\ UNCHANGED <<now, filing, disk, sessions, faults, reused>>

RemoveDirectory ==
  /\ \E r \in removing : /\ disk' = [s \in DOMAIN disk \ {r} |-> disk[s]]
                         /\ removing' = removing \ {r}
  /\ UNCHANGED <<now, session, running, index, opened, filing, metadata, sessions, faults, reused>>

\* The controller dies: what is on disk stays.
CrashController ==
  /\ session # 0 /\ faults < MaxFaults
  /\ session' = 0 /\ running' = FALSE /\ index' = 0 /\ opened' = 0 /\ metadata' = <<>>
  /\ filing' = Filed /\ removing' = {}
  /\ faults' = faults + 1
  /\ UNCHANGED <<now, disk, sessions, reused>>

\* Time passes; the fragment that is open grows.
Tick ==
  /\ now < MaxTime /\ filing.step # "push"
  /\ now' = now + 1
  /\ disk' = IF running /\ opened > 0
             THEN [disk EXCEPT ![session].files =
                     [n \in Names |-> IF @[n].from = opened THEN [@[n] EXCEPT !.to = now'] ELSE @[n]]]
             ELSE disk
  /\ UNCHANGED <<session, running, index, opened, filing, metadata, removing, sessions, faults, reused>>

RecordNext ==
  \/ StartSession \/ StartPipeline \/ OpenFragment \/ PushRecord \/ WriteMetadata
  \/ FailPipeline \/ CloseSession \/ RemoveDirectory \/ CrashController \/ Tick

RecordSpec == RecordInit /\ [][RecordNext]_recordVars

-----------------------------------------------------------------------------
(* GetAndUploadRecordFile, with the directories read at one moment.        *)

\* The target, or the last smaller element, in sorted keys.
SearchElementOrSmaller(keys, target) ==
  {k \in keys : k <= target /\ \A j \in keys : j <= target => j <= k}

\* The entries a search of one session may end at; times are not repeated.
LookupIn(d, ts) ==
  LET entries == ToSet(disk[d].metadata)
      times   == {e.time : e \in entries}
  IN {e \in entries : e.time \in SearchElementOrSmaller(times, ts)}

Lookup(ts) ==
  UNION {{[session |-> d, name |-> e.name, start |-> e.time] : e \in LookupIn(d, ts)} :
         d \in SearchElementOrSmaller(DOMAIN disk, ts)}

-----------------------------------------------------------------------------
\* What a search finds is what was recorded.  The file it uploads began at the
\* start it names, across fragments that take old names, failed pipelines,
\* sessions and crashes; two things break this: a fragment that has taken a name
\* and is not yet filed, and a pipeline that was created again when all names
\* were in use and wrote over a file that was not the oldest.  And a moment that
\* a filed fragment covers leads to that fragment and no other.
FoundFileHolds ==
  \A ts \in 1 .. now :
    /\ \A a \in Lookup(ts) :
         \/ disk[a.session].files[a.name].from = a.start
         \/ a.session \in reused
         \/ disk[a.session].files[a.name].from > 0
              /\ \A e \in ToSet(disk[a.session].metadata) :
                   e.time # disk[a.session].files[a.name].from
    /\ \A s \in DOMAIN disk, n \in Names :
         LET f == disk[s].files[n]
         IN /\ f.from <= ts /\ ts < f.to
            /\ \E e \in ToSet(disk[s].metadata) : e.time = f.from
            => Lookup(ts) = {[session |-> s, name |-> n, start |-> f.from]}
=============================================================================
