-------------------------- MODULE MCMessagingCore --------------------------
(***************************************************************************)
(* Small instances of MessagingCore: one worker under one director, in one *)
(* process or in two.                                                      *)
(***************************************************************************)
EXTENDS CoreRefinesQueue

CONSTANTS Director, Worker,   \* two partners
          Here, There         \* two processes

\* One process serves both partners.
OneOwner == [p \in Partner |-> Here]

\* Each partner's extension is held by a process of its own.
TwoOwners == [p \in Partner |-> IF p = Director THEN Here ELSE There]

\* The director has handshaken to the worker.
DirectorDirects == [p \in Partner |-> IF p = Director THEN {Worker} ELSE {}]

\* The director delegates research, and the worker asks it questions.
Delegation == {<<Director, Worker, "RESEARCH">>, <<Worker, Director, "QUERY">>}

\* The director delegates research only.
ResearchOnly == {<<Director, Worker, "RESEARCH">>}

\* The director delegates research and asks questions.
ResearchAndQuestions == {<<Director, Worker, "RESEARCH">>, <<Director, Worker, "QUERY">>}
=============================================================================
