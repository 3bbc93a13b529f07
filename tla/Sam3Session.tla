---------------------------- MODULE Sam3Session ----------------------------
(***************************************************************************)
(* The interactive SAM3 sessions: the registry in the memory of the API    *)
(* (sam3_session.py), its routes (routers/sam3_session.py), the worker     *)
(* that keeps a segment on the GPU while it serves one session             *)
(* (sam3_runner/session.py), the previews it writes to the shared disk and *)
(* the pages that ask for them (Sam3View.tsx).                             *)
(*                                                                         *)
(* The routes run on one event loop and await nothing inside an operation  *)
(* of the registry, so each is one action; the wait of a long poll between *)
(* two of them is not a step.  A session has the number of its opening.    *)
(***************************************************************************)
EXTENDS Naturals, SequencesExt

CONSTANTS
    Tabs, Segments, None,
    Keep,             \* previews a segment keeps, at least one (_cleanup_previews)
    MaxSessions,      \* bound: sessions opened
    MaxTests,         \* bound: tests asked of one session
    MaxSessionFaults  \* bound: crashes, restarts and failed requests

ASSUME SessionAssumption ==
    Keep \in Nat \ {0} /\ MaxSessions \in Nat /\ MaxTests \in Nat /\ MaxSessionFaults \in Nat

VARIABLES
    sessions,       \* SessionRegistry._sessions, in the order of the dictionary
    gpu,            \* what the SAM3 worker is doing, for which session
    previews,       \* the files of _preview of each segment, newest first
    tab,            \* the page of each tab: the session it shows
    sessionFaults

sessionVars == <<sessions, gpu, previews, tab, sessionFaults>>

Ids     == 1..Len(sessions)
Polling == [at |-> "polling", id |-> 0, seq |-> 0]
Away    == [at |-> "away", segment |-> None, id |-> 0, state |-> "none"]

Alive(s) == s.state \in {"opening", "ready", "busy"}

\* for_segment: the first live session of the segment, or 0.
ForSegment(g) ==
    LET Live == {i \in Ids : Alive(sessions[i]) /\ sessions[i].segment = g}
    IN  IF Live = {} THEN 0 ELSE CHOOSE i \in Live : \A j \in Live : i <= j

\* The page asks about its segment while it shows a session that has not ended.
Watching(t) == tab[t].at # "away" /\ tab[t].state \notin {"none", "closed"}
Watched(i)  == \E t \in Tabs : Watching(t) /\ ForSegment(tab[t].segment) = i

Opening(g) ==
    [segment |-> g, state |-> "opening", taken |-> FALSE, pending |-> 0,
     seq |-> 0, last |-> 0, mask |-> FALSE]

SessionInit ==
    /\ sessions = <<>> /\ gpu = Polling /\ sessionFaults = 0
    /\ previews = [g \in Segments |-> <<>>]
    /\ tab = [t \in Tabs |-> Away]

Smaller(m, n) == IF m < n THEN m ELSE n

Set(i, s) == sessions' = [sessions EXCEPT ![i] = s]
Fault     == sessionFaults < MaxSessionFaults /\ sessionFaults' = sessionFaults + 1

(***************************************************************************)
(* The page.                                                               *)
(***************************************************************************)
\* testar, first half: no live session on the page, so POST session opens one
\* or finds the one of another page.
Open(t, g) ==
    /\ tab[t].at = "away" \/ (tab[t].at = "shown" /\ tab[t].segment = g)
    /\ tab[t].state \in {"none", "closed", "error"}
    /\ IF ForSegment(g) # 0
       THEN UNCHANGED sessions
       ELSE Len(sessions) < MaxSessions /\ sessions' = Append(sessions, Opening(g))
    /\ LET i == IF ForSegment(g) # 0 THEN ForSegment(g) ELSE Len(sessions) + 1 IN
       tab' = [tab EXCEPT ![t] = [at |-> "opened", segment |-> g, id |-> i,
                                  state |-> sessions'[i].state]]
    /\ UNCHANGED <<gpu, previews, sessionFaults>>

\* testar, second half, or all of it when the page shows a session that waits:
\* request_preview, refused when the session has ended.
RequestPreview(t) ==
    /\ tab[t].at = "opened" \/ (tab[t].at = "shown" /\ tab[t].state = "ready")
    /\ LET i == tab[t].id  s == sessions[i] IN
       IF Alive(s)
       THEN /\ s.seq < MaxTests
            /\ Set(i, [s EXCEPT !.seq = @ + 1, !.pending = s.seq + 1, !.state = "busy"])
            /\ tab' = [tab EXCEPT ![t].at = "shown", ![t].state = "busy"]
       ELSE tab' = [tab EXCEPT ![t].at = "shown"] /\ UNCHANGED sessions
    /\ UNCHANGED <<gpu, previews, sessionFaults>>

\* session_state, by the long poll or by the timer: what the page shows next.
Poll(t) ==
    /\ tab[t].at = "shown" /\ Watching(t)
    /\ LET i == ForSegment(tab[t].segment) IN
       tab' = [tab EXCEPT ![t].id = i,
                          ![t].state = IF i = 0 THEN "none" ELSE sessions[i].state]
    /\ UNCHANGED <<sessions, gpu, previews, sessionFaults>>

\* The user leaves, or goes to another segment: the effect that would close the
\* session has the session of the first render, which is none.
Leave(t) ==
    /\ tab[t].at # "away"
    /\ tab' = [tab EXCEPT ![t] = Away]
    /\ UNCHANGED <<sessions, gpu, previews, sessionFaults>>

\* propagar closes the session the page shows, whatever its state, and leaves.
Propagate(t) ==
    /\ tab[t].at = "shown"
    /\ LET i == tab[t].id IN
       IF i # 0 /\ sessions[i].state # "lost"
       THEN Set(i, [sessions[i] EXCEPT !.state = "closed"]) ELSE UNCHANGED sessions
    /\ tab' = [tab EXCEPT ![t] = Away]
    /\ UNCHANGED <<gpu, previews, sessionFaults>>

\* _expire, by whoever reads the registry: nobody has asked for IDLE_TIMEOUT.
ExpireIdle(i) ==
    /\ Alive(sessions[i]) /\ ~Watched(i)
    /\ Set(i, [sessions[i] EXCEPT !.state = "closed"])
    /\ UNCHANGED <<gpu, previews, tab, sessionFaults>>

(***************************************************************************)
(* The worker: run_session, and the calls of the registry it makes.        *)
(***************************************************************************)
\* next_session, take: the first session that is opening and not taken.
TakeSession ==
    LET Offered == {i \in Ids : sessions[i].state = "opening" /\ ~sessions[i].taken} IN
    /\ gpu.at = "polling"
    /\ \E i \in Offered :
         /\ \A j \in Offered : i <= j
         /\ Set(i, [sessions[i] EXCEPT !.taken = TRUE])
         /\ gpu' = [at |-> "loading", id |-> i, seq |-> 0]
    /\ UNCHANGED <<previews, tab, sessionFaults>>

\* init_state, then mark_ready; a session that ended meanwhile is refused, and
\* run_session reports that refusal with fail.
Load ==
    /\ gpu.at = "loading"
    /\ LET s == sessions[gpu.id] IN
       \/ /\ Alive(s)
          /\ Set(gpu.id, [s EXCEPT !.state = "ready"])
          /\ gpu' = [gpu EXCEPT !.at = "waiting"]
       \/ /\ ~Alive(s)
          /\ IF s.state = "lost" THEN UNCHANGED sessions
             ELSE Set(gpu.id, [s EXCEPT !.state = "error"])
          /\ gpu' = Polling
    /\ UNCHANGED <<previews, tab, sessionFaults>>

\* init_state raises.
LoadFails ==
    /\ gpu.at = "loading" /\ Fault
    /\ IF sessions[gpu.id].state = "lost" THEN UNCHANGED sessions
       ELSE Set(gpu.id, [sessions[gpu.id] EXCEPT !.state = "error"])
    /\ gpu' = Polling
    /\ UNCHANGED <<previews, tab>>

\* Faulty: a session that ended has nothing to say to its worker.
EndedQuietly(s) == s.state = "lost"

\* take_command of a session that ended is "close"; of one the registry does
\* not know, a 404.
Ended(s) == ~Alive(s)

NextCommand ==
    /\ gpu.at = "waiting"
    /\ LET s == sessions[gpu.id] IN
       \/ /\ Ended(s)
          /\ gpu' = Polling
          /\ UNCHANGED sessions
       \/ /\ ~Ended(s) /\ s.pending # 0
          /\ gpu' = [gpu EXCEPT !.at = "testing", !.seq = s.pending]
          /\ Set(gpu.id, [s EXCEPT !.pending = 0])
    /\ UNCHANGED <<previews, tab, sessionFaults>>

\* The frame is segmented; the mask, unless it is empty, goes to the file named
\* by the number of the test, and _cleanup_previews keeps the newest files.
SegmentFrame(found) ==
    /\ gpu.at = "testing"
    /\ LET g == sessions[gpu.id].segment
           same == {n \in DOMAIN previews[g] : previews[g][n].seq = gpu.seq}
           others == IF same = {} THEN previews[g]
                     ELSE RemoveAt(previews[g], CHOOSE n \in same : TRUE)
           all == <<[id |-> gpu.id, seq |-> gpu.seq]>> \o others
       IN  previews' = IF found
                       THEN [previews EXCEPT ![g] = SubSeq(all, 1, Smaller(Len(all), Keep))]
                       ELSE previews
    /\ gpu' = [gpu EXCEPT !.at = IF found THEN "masked" ELSE "empty"]
    /\ UNCHANGED <<sessions, tab, sessionFaults>>

\* Faulty: a late answer is shown for the boxes of the next test.
LatestAny(s, seq) == TRUE

LatestTest(s, seq) == seq = s.seq

\* deliver: the answer to a test that was replaced is dropped; the session is
\* ready again, whatever it was.
Deliver ==
    /\ gpu.at \in {"masked", "empty"}
    /\ LET s == sessions[gpu.id] IN
       IF s.state # "lost" /\ LatestTest(s, gpu.seq)
       THEN Set(gpu.id, [s EXCEPT !.last = s.seq, !.mask = gpu.at = "masked",
                                  !.state = "ready"])
       ELSE UNCHANGED sessions
    /\ gpu' = [gpu EXCEPT !.at = "waiting"]
    /\ UNCHANGED <<previews, tab, sessionFaults>>

\* The answer fails, and the second one, which says so, arrives or fails too.
DeliverFails ==
    /\ gpu.at \in {"testing", "masked", "empty"} /\ Fault
    /\ LET s == sessions[gpu.id] IN
       \/ UNCHANGED sessions
       \/ /\ s.state # "lost" /\ LatestTest(s, gpu.seq)
          /\ Set(gpu.id, [s EXCEPT !.last = s.seq, !.mask = FALSE, !.state = "ready"])
    /\ gpu' = [gpu EXCEPT !.at = "waiting"]
    /\ UNCHANGED <<previews, tab>>

\* The worker dies and starts again, or run_session gives up on an HTTP error:
\* the session it had taken stays taken.
WorkerDies ==
    /\ gpu.at # "polling" /\ Fault
    /\ gpu' = Polling
    /\ UNCHANGED <<sessions, previews, tab>>

\* The API starts again with an empty registry.
Restart ==
    /\ sessions # <<>> /\ Fault
    /\ sessions' = [i \in Ids |-> [sessions[i] EXCEPT !.state = "lost"]]
    /\ UNCHANGED <<gpu, previews, tab>>

WorkerStep == TakeSession \/ Load \/ NextCommand \/ Deliver \/ \E found \in BOOLEAN : SegmentFrame(found)

SessionNext ==
    \/ \E t \in Tabs : RequestPreview(t) \/ Poll(t) \/ Leave(t) \/ Propagate(t)
                       \/ \E g \in Segments : Open(t, g)
    \/ \E i \in Ids : ExpireIdle(i)
    \/ WorkerStep \/ LoadFails \/ DeliverFails \/ WorkerDies \/ Restart

SessionSpec == SessionInit /\ [][SessionNext]_sessionVars

\* The worker is a loop; every read of the registry expires what is idle, and
\* the worker reads it at each turn.
SessionFairness == WF_sessionVars(WorkerStep) /\ WF_sessionVars(\E i \in Ids : ExpireIdle(i))
SessionFairSpec == SessionSpec /\ SessionFairness

(***************************************************************************)
(* Properties.                                                             *)
(***************************************************************************)
States == {"opening", "ready", "busy", "closed", "error", "lost"}

\* Types, and what the fields mean together: a test the worker has not been
\* given is the last one asked for.
SessionTypeOK ==
    /\ Len(sessions) <= MaxSessions /\ sessionFaults \in 0..MaxSessionFaults
    /\ \A i \in Ids : LET s == sessions[i] IN
         /\ s.segment \in Segments /\ s.state \in States
         /\ s.taken \in BOOLEAN /\ s.mask \in BOOLEAN
         /\ s.seq \in 0..MaxTests /\ s.last \in 0..s.seq /\ s.pending \in {0, s.seq}
    /\ gpu.at \in {"polling", "loading", "waiting", "testing", "masked", "empty"}
    /\ gpu.id \in 0..Len(sessions) /\ gpu.seq \in 0..MaxTests
    /\ \A g \in Segments : Len(previews[g]) <= Keep
    /\ \A t \in Tabs : tab[t].at \in {"away", "opened", "shown"}

\* The session the worker keeps on the GPU, when it is ready with a preview, has
\* the preview of the boxes last tested: not one of an earlier test whose answer
\* came late (deliver), and not a file that another session, whose tests have
\* the same numbers, wrote over it or pushed out of the directory
\* (_cleanup_previews).
PreviewOfLastBoxes ==
    \A i \in Ids : LET s == sessions[i] IN
        gpu.id = i /\ s.state = "ready" /\ s.last # 0 =>
            /\ s.last = s.seq
            /\ s.mask => \E n \in DOMAIN previews[s.segment] :
                  previews[s.segment][n] = [id |-> i, seq |-> s.last]

\* The types, and what a session says of its preview.
SessionsSound == SessionTypeOK /\ PreviewOfLastBoxes

\* A segment does not stay on the GPU for nobody: when the pages have gone, the
\* worker comes back to its queues, whatever ended the session and even when a
\* late answer opened it again (IDLE_TIMEOUT, take_command, run_session).
GpuIsReleased ==
    (\A t \in Tabs : tab[t] = Away) ~> (gpu = Polling \/ \E t \in Tabs : tab[t] # Away)

\* "Próxima sessão a abrir" (take): a live session that no worker has taken yet
\* is one that take still offers.
WaitingIsOffered ==
    \A i \in Ids : Alive(sessions[i]) /\ ~sessions[i].taken => sessions[i].state = "opening"
=============================================================================
