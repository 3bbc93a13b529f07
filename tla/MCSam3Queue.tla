---------------------------- MODULE MCSam3Queue ----------------------------
(***************************************************************************)
(* The two queues the SAM3 worker polls: the rows of one video and the     *)
(* interactive sessions.  Their calls change nothing of each other, so one *)
(* of the two runs in a behaviour.                                         *)
(***************************************************************************)
EXTENDS Sam3Queue, Sam3Session

VARIABLE part

all == <<part, queueVars, sessionVars>>

MCInit == part \in {"rows", "sessions"} /\ QueueInit /\ SessionInit

MCNext ==
  \/ part = "rows"     /\ QueueNext   /\ UNCHANGED <<part, sessionVars>>
  \/ part = "sessions" /\ SessionNext /\ UNCHANGED <<part, queueVars>>

\* The fairness of Sam3Session.
MCSpec ==
  /\ MCInit /\ [][MCNext]_all
  /\ WF_sessionVars(part = "sessions" /\ WorkerStep)
  /\ WF_sessionVars(part = "sessions" /\ \E i \in Ids : ExpireIdle(i))
=============================================================================
