----------------------------- MODULE ProxyCache -----------------------------
(***************************************************************************)
(* The frame proxies of one video (proxy.py): immutable generations, the   *)
(* pointer CURRENT of each root, the index of the window roots, and the    *)
(* readers, publishers, evictions and sweeps that meet there.  Publishers  *)
(* are jobs of the API or of the CPU worker; only the file locks and the   *)
(* atomic renames keep them apart.                                         *)
(*                                                                         *)
(* A generation has the name of the attempt that extracted it.  A step     *)
(* taken entirely under the publish lock of a root by a sweep or by an     *)
(* eviction is one action; where a crash can cut it short, so can a fault. *)
(* Every window covers the frame the readers ask for.                      *)
(***************************************************************************)
EXTENDS Naturals, FiniteSetsExt

CONSTANTS
    Full,           \* the root with the whole video
    Windows,        \* the roots of windows of it
    Readers, None,
    MaxAttempts,    \* bound: extractions
    Requests,       \* which roots they may be for: a set of functions
    MaxFaults       \* bound: crashes and failed writes

ASSUME CacheAssumption ==
    /\ MaxAttempts \in Nat /\ MaxFaults \in Nat
    /\ None \notin 1..MaxAttempts
    /\ Requests \subseteq [1..MaxAttempts -> Windows \cup {Full}]

VARIABLES
    root, at, file, seq,    \* per attempt: root, progress, where its directory is, sequence
    current,        \* CURRENT of each root
    lock,           \* .publish.lock of each root
    index,          \* INDEX.json: the entry of each window
    indexLock,      \* .index.lock
    sequence,       \* .sequence
    mark,           \* when each generation got its RETIRE_MARKER, 0 if it has none
    aged,           \* marked, or inactive, for longer than the grace period
    reader,         \* what each reader resolved
    faults

attemptVars == <<root, at, file, seq>>
indexVars   == <<index, indexLock, sequence>>
vars == <<attemptVars, current, lock, indexVars, mark, aged, reader, faults>>

Roots    == Windows \cup {Full}
Attempts == 1..MaxAttempts

NoEntry == [seq |-> 0, gen |-> None]
Idle    == [at |-> "idle", root |-> None, gen |-> None, late |-> FALSE]

(***************************************************************************)
(* Reading.                                                                *)
(***************************************************************************)
\* current_generation: the generation CURRENT names, if it is there.
Published(r) ==
    IF current[r] # None /\ file[current[r]] = "final" THEN current[r] ELSE None

Entries == {w \in Windows : index[w] # NoEntry}

\* _parse_windows_index_snapshot: an index that repeats a sequence is no index.
Readable == \A v, w \in Entries : v # w => index[v].seq # index[w].seq

\* _window_candidates: the newest of the windows that cover the frame.
Candidates == IF Readable THEN {w \in Entries : \A v \in Entries : index[v].seq <= index[w].seq}
              ELSE {}

\* A reader that resolves a generation already marked has no grace to count on.
Take(x, r, t) ==
    reader' = [reader EXCEPT ![x] = [at |-> "serving", root |-> r, gen |-> t,
                                     late |-> mark[t] # 0]]

unchangedByReaders ==
    UNCHANGED <<attemptVars, current, lock, indexVars, mark, aged, faults>>

LocateFull(x) ==
    /\ reader[x].at = "idle"
    /\ Published(Full) # None
    /\ Take(x, Full, Published(Full))
    /\ unchangedByReaders

LocateWindow(x) ==
    /\ reader[x].at = "idle"
    /\ Published(Full) = None
    /\ \E w \in Candidates :
          reader' = [reader EXCEPT ![x] = [Idle EXCEPT !.at = "located", !.root = w,
                                                       !.gen = index[w].gen]]
    /\ unchangedByReaders

\* CURRENT must still name the indexed generation.
Resolve(x) ==
    LET r == reader[x].root IN
    /\ reader[x].at = "located"
    /\ IF Published(r) = reader[x].gen
       THEN Take(x, r, reader[x].gen)
       ELSE reader' = [reader EXCEPT ![x] = Idle]
    /\ unchangedByReaders

\* The response has been sent.
Served(x) ==
    /\ reader[x].at = "serving"
    /\ reader' = [reader EXCEPT ![x] = Idle]
    /\ unchangedByReaders

(***************************************************************************)
(* The retire mark, with its age.                                          *)
(***************************************************************************)
\* The next time there is, as the markers of the root r tell it.
Now(r) == 1 + Max({0} \cup {mark[t] : t \in {u \in Attempts : root[u] = r}})

\* The generation t is marked now.
Mark(t) ==
    /\ mark' = [mark EXCEPT ![t] = Now(root[t])]
    /\ aged' = aged \ {t}
    /\ reader' = [x \in Readers |-> IF reader[x].gen = t
                                    THEN [reader[x] EXCEPT !.late = FALSE] ELSE reader[x]]

\* The grace period ends: who resolved t before it was marked has been served;
\* the staging of a dead attempt has not changed for a day.
Age(t) ==
    /\ t \notin aged
    /\ \/ /\ mark[t] # 0
          /\ \A x \in Readers : reader[x].at = "serving" /\ reader[x].gen = t => reader[x].late
       \/ at[t] = "dead" /\ file[t] = "staging"
    /\ aged' = aged \cup {t}
    /\ UNCHANGED <<attemptVars, current, lock, indexVars, mark, reader, faults>>

(***************************************************************************)
(* Publishing.                                                             *)
(***************************************************************************)
\* start_full, start_window, run_proxy_full, run_proxy_window: a staging of its own.
Extract(a) ==
    /\ at[a] = "none"
    /\ \A b \in 1..(a - 1) : at[b] # "none"
    /\ lock[root[a]] = None
    /\ at' = [at EXCEPT ![a] = "extracting"]
    /\ file' = [file EXCEPT ![a] = "staging"]
    /\ UNCHANGED <<root, seq, current, lock, indexVars, mark, aged, reader, faults>>

Unlock(a) ==
    /\ lock' = [lock EXCEPT ![root[a]] = IF @ = a THEN None ELSE @]
    /\ indexLock' = IF indexLock = a THEN None ELSE indexLock

\* ffmpeg, the validation, the lease or the write of the marker failed: the
\* staging is removed.
Fail(a) ==
    /\ at[a] \in {"extracting", "locked"}
    /\ at' = [at EXCEPT ![a] = "failed"]
    /\ file' = [file EXCEPT ![a] = "gone"]
    /\ Unlock(a)
    /\ UNCHANGED <<root, seq, current, index, sequence, mark, aged, reader, faults>>

\* Faulty: the sequence after the last one indexed, whatever was handed out.
NextSequenceIndexed == Max({0} \cup {index[w].seq : w \in (IF Readable THEN Entries ELSE {})}) + 1

\* _allocate_window_sequence_locked: above what was handed out and what is indexed.
NextSequence == Max({sequence} \cup {index[w].seq : w \in (IF Readable THEN Entries ELSE {})}) + 1

\* publish_generation under the publish lock and, for a window, the index lock.
Begin(a) ==
    /\ at[a] = "extracting"
    /\ lock[root[a]] = None
    /\ lock' = [lock EXCEPT ![root[a]] = a]
    /\ at' = [at EXCEPT ![a] = "locked"]
    /\ IF root[a] \in Windows
       THEN /\ indexLock = None
            /\ indexLock' = a
            /\ sequence' = NextSequence
            /\ seq' = [seq EXCEPT ![a] = sequence']
       ELSE UNCHANGED <<indexLock, sequence, seq>>
    /\ UNCHANGED <<root, file, current, index, mark, aged, reader, faults>>

\* The complete generation takes its final name; CURRENT does not name it yet.
Place(a) ==
    /\ at[a] = "locked"
    /\ at' = [at EXCEPT ![a] = "placed"]
    /\ file' = [file EXCEPT ![a] = "final"]
    /\ UNCHANGED <<root, seq, current, lock, indexVars, mark, aged, reader, faults>>

\* publish_guard: the job was cancelled, or its lease is gone.
Refused(a) ==
    /\ at[a] = "placed"
    /\ at' = [at EXCEPT ![a] = "failed"]
    /\ Unlock(a)
    /\ UNCHANGED <<root, file, seq, current, index, sequence, mark, aged, reader, faults>>

\* CURRENT moves, then the generation it named is marked.  The mark may fail, or
\* the process dies before it.
Point(a) ==
    LET r == root[a] IN
    /\ at[a] = "placed"
    /\ current' = [current EXCEPT ![r] = a]
    /\ \/ /\ current[r] # None
          /\ Mark(current[r])
          /\ at' = [at EXCEPT ![a] = "pointed"]
          /\ UNCHANGED <<lock, indexLock, faults>>
       \/ /\ current[r] # None => faults < MaxFaults
          /\ faults' = IF current[r] # None THEN faults + 1 ELSE faults
          /\ \/ /\ at' = [at EXCEPT ![a] = "pointed"]
                /\ UNCHANGED <<lock, indexLock>>
             \/ /\ current[r] # None
                /\ at' = [at EXCEPT ![a] = "dead"]
                /\ Unlock(a)
          /\ UNCHANGED <<mark, aged, reader>>
    /\ UNCHANGED <<root, file, seq, index, sequence>>

\* _publish_window_index_locked
Finish(a) ==
    /\ at[a] = "pointed"
    /\ at' = [at EXCEPT ![a] = "done"]
    /\ index' = IF root[a] \in Windows
                THEN [w \in Windows |-> IF w = root[a] THEN [seq |-> seq[a], gen |-> a]
                                        ELSE IF Readable THEN index[w] ELSE NoEntry]
                ELSE index
    /\ Unlock(a)
    /\ UNCHANGED <<root, file, seq, current, sequence, mark, aged, reader, faults>>

\* The process of the attempt dies; the system releases its file locks.
Crash(a) ==
    /\ at[a] \in {"extracting", "locked", "placed", "pointed"}
    /\ faults < MaxFaults
    /\ faults' = faults + 1
    /\ at' = [at EXCEPT ![a] = "dead"]
    /\ Unlock(a)
    /\ UNCHANGED <<root, file, seq, current, index, sequence, mark, aged, reader>>

(***************************************************************************)
(* Maintenance: the eviction of roots when the cache is over its limit,    *)
(* and the sweep.                                                          *)
(***************************************************************************)
\* _has_active_staging
ActiveStaging(r) == \E a \in Attempts : root[a] = r /\ file[a] = "staging" /\ a \notin aged

Free(r) == lock[r] = None /\ (r \in Windows => indexLock = None)

\* _retire_proxy_root: mark, unlink CURRENT, drop the entry.
Evict(r) ==
    LET t == Published(r) IN
    /\ Free(r)
    /\ ~ActiveStaging(r)
    /\ t # None
    /\ Mark(t)
    /\ \E done \in {"marked", "unlinked", "all"} :
          /\ done # "all" => faults < MaxFaults
          /\ faults' = IF done = "all" THEN faults ELSE faults + 1
          /\ current' = IF done = "marked" THEN current ELSE [current EXCEPT ![r] = None]
          /\ index' = IF done = "all" /\ r \in Windows
                      THEN [index EXCEPT ![r] = NoEntry] ELSE index
    /\ UNCHANGED <<attemptVars, lock, indexLock, sequence>>

\* The complete generations CURRENT does not name.
Stale(r) == {t \in Attempts : root[t] = r /\ file[t] = "final" /\ t # current[r]}

\* The ones with the latest mark: the time of the mark, then that of the
\* directory, then the name decide which of them is the previous generation.
Latest(m, ts) == {t \in ts : \A u \in ts : m[u] <= m[t]}

\* Faulty: a generation is removed as soon as it is marked and replaced.
CollectAtOnce(r) ==
    LET marked == {t \in Stale(r) : mark[t] # 0} IN
    /\ lock[r] = None
    /\ \E kept \in Latest(mark, marked) :
          /\ marked # {kept}
          /\ file' = [t \in Attempts |-> IF t \in marked \ {kept} THEN "trash" ELSE file[t]]
          /\ mark' = [t \in Attempts |-> IF t \in marked \ {kept} THEN 0 ELSE mark[t]]
    /\ UNCHANGED <<root, at, seq, current, lock, indexVars, aged, reader, faults>>

\* collect_stale_generations: what is not CURRENT and has no mark gets one
\* now; of the marked, the latest stays while there is a CURRENT, and the others
\* leave when their grace is over, as do the stagings nobody writes.
Collect(r) ==
    LET stale == Stale(r)
        now   == Now(r)
        marks == [t \in Attempts |-> IF t \in stale /\ mark[t] = 0 THEN now ELSE mark[t]]
        abandoned == {t \in aged : root[t] = r /\ file[t] = "staging"}
    IN
    /\ lock[r] = None
    /\ \E kept \in IF current[r] = None \/ stale = {} THEN {{}}
                   ELSE {{t} : t \in Latest(marks, stale)} :
          LET victims == ((stale \cap aged) \ kept) \cup abandoned IN
          /\ marks # mark \/ victims # {}
          /\ file' = [t \in Attempts |-> IF t \in victims THEN "trash" ELSE file[t]]
          /\ mark' = [t \in Attempts |-> IF t \in victims THEN 0 ELSE marks[t]]
    /\ UNCHANGED <<root, at, seq, current, lock, indexVars, aged, reader, faults>>

\* rmtree of a tombstone, by the collector or by a later _cleanup_gc_trash.
RemoveTrash(t) ==
    /\ file[t] = "trash"
    /\ file' = [file EXCEPT ![t] = "gone"]
    /\ UNCHANGED <<root, at, seq, current, lock, indexVars, mark, aged, reader, faults>>

\* _reconcile_window_index: the entry follows CURRENT.
Wanted(w) ==
    IF Published(w) = None THEN NoEntry ELSE [seq |-> seq[Published(w)], gen |-> Published(w)]

\* Faulty: a root without CURRENT keeps its entry.
ReconcilePublished(w) ==
    /\ Free(w)
    /\ Published(w) # None
    /\ (IF Readable THEN index[w] ELSE NoEntry) # Wanted(w)
    /\ index' = [v \in Windows |-> IF v = w THEN Wanted(w)
                                   ELSE IF Readable THEN index[v] ELSE NoEntry]
    /\ UNCHANGED <<attemptVars, current, lock, indexLock, sequence, mark, aged, reader, faults>>

Reconcile(w) ==
    /\ Free(w)
    /\ (IF Readable THEN index[w] ELSE NoEntry) # Wanted(w)
    /\ index' = [v \in Windows |-> IF v = w THEN Wanted(w)
                                   ELSE IF Readable THEN index[v] ELSE NoEntry]
    /\ UNCHANGED <<attemptVars, current, lock, indexLock, sequence, mark, aged, reader, faults>>

-----------------------------------------------------------------------------
Init ==
    /\ root \in Requests
    /\ at = [a \in Attempts |-> "none"]
    /\ file = [a \in Attempts |-> "none"]
    /\ seq = [a \in Attempts |-> 0]
    /\ current = [r \in Roots |-> None]
    /\ lock = [r \in Roots |-> None]
    /\ index = [w \in Windows |-> NoEntry]
    /\ indexLock = None
    /\ sequence = 0
    /\ mark = [a \in Attempts |-> 0]
    /\ aged = {}
    /\ reader = [x \in Readers |-> Idle]
    /\ faults = 0

Publish(a) == Begin(a) \/ Place(a) \/ Point(a) \/ Finish(a) \/ Refused(a)

Sweep(r) == Collect(r) \/ (r \in Windows /\ Reconcile(r))

Next ==
    \/ \E a \in Attempts : \/ Extract(a) \/ Publish(a) \/ Fail(a) \/ Crash(a)
                           \/ Age(a) \/ RemoveTrash(a)
    \/ \E r \in Roots : Evict(r) \/ Sweep(r)
    \/ \E x \in Readers : LocateFull(x) \/ LocateWindow(x) \/ Resolve(x) \/ Served(x)

(***************************************************************************)
(* Jobs run, responses end, time passes, and the worker sweeps every root  *)
(* in turn (_rotating_sweep_events).                                       *)
(***************************************************************************)
Fairness ==
    /\ \A a \in Attempts : /\ WF_vars(Publish(a)) /\ WF_vars(Age(a))
                           /\ WF_vars(RemoveTrash(a))
    /\ \A w \in Windows : WF_vars(Reconcile(w))
    /\ \A r \in Roots : WF_vars(Collect(r))
    /\ \A x \in Readers : WF_vars(Resolve(x)) /\ WF_vars(Served(x))

Spec == Init /\ [][Next]_vars
FairSpec == Spec /\ Fairness

-----------------------------------------------------------------------------
TypeOK ==
    /\ root \in [Attempts -> Roots]
    /\ at \in [Attempts -> {"none", "extracting", "locked", "placed", "pointed", "done",
                            "failed", "dead"}]
    /\ file \in [Attempts -> {"none", "staging", "final", "trash", "gone"}]
    /\ seq \in [Attempts -> 0..MaxAttempts] /\ sequence \in 0..MaxAttempts
    /\ current \in [Roots -> Attempts \cup {None}] /\ lock \in [Roots -> Attempts \cup {None}]
    /\ index \in [Windows -> [seq : 0..MaxAttempts, gen : Attempts \cup {None}]]
    /\ indexLock \in Attempts \cup {None}
    /\ mark \in [Attempts -> Nat]
    /\ aged \subseteq Attempts
    /\ faults \in 0..MaxFaults

(***************************************************************************)
(* The file a reader resolved is there until its response ends, although   *)
(* readers take no lock: not the publisher that replaces the generation,   *)
(* nor the eviction of its root, nor the collector moves it away, with a   *)
(* crash or a failed write of the mark at any point.  (A crash between the *)
(* mark and the unlink of an eviction together with a failed mark of the   *)
(* next publisher would: the bound on faults is part of the claim.)        *)
(***************************************************************************)
ServedFrameExists ==
    \A x \in Readers : reader[x].at = "serving" => file[reader[x].gen] = "final"

(***************************************************************************)
(* CURRENT always names a complete generation.  The index can always be    *)
(* read, which takes distinct sequences for windows published by different *)
(* processes, some of which died before indexing theirs; and it only names *)
(* generations that were published.                                        *)
(***************************************************************************)
CacheSound ==
    /\ TypeOK
    /\ \A r \in Roots : current[r] # None => file[current[r]] = "final"
    /\ Readable
    /\ \A w \in Entries : LET t == index[w].gen IN
          /\ root[t] = w /\ seq[t] = index[w].seq
          /\ at[t] \in {"done", "dead"}

(***************************************************************************)
(* What crashes leave behind is repaired: in the end the index agrees with *)
(* CURRENT in every window, and of each root only CURRENT and the last     *)
(* generation before it take space.                                        *)
(***************************************************************************)
Clean ==
    /\ \A w \in Windows : index[w] = Wanted(w)
    /\ \A t \in Attempts : LET r == root[t] IN
          \/ file[t] \in {"none", "gone"}
          \/ at[t] = "extracting"
          \/ current[r] = t
          \/ current[r] # None /\ t \in Latest(mark, Stale(r))

CacheSettles == <>[]Clean

=============================================================================
