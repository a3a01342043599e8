------------------------------- MODULE MCServer -------------------------------
(***************************************************************************)
(* A server process, from its start: the schema it brings the database to, *)
(* by SchemaUpgrade's own names, what becomes of the stage names in old    *)
(* rows (StartupMigration), and the background jobs it runs when it has    *)
(* won the lock (JobClaims).  A behaviour moves one of them, fixed at the  *)
(* start.                                                                  *)
(***************************************************************************)
EXTENDS SchemaUpgrade, TLC

CONSTANTS
    Parts,  \* the modules a run is about
    Apps, Rows, None,
    MaxCrashes, MaxDrops, MaxRequeues

VARIABLES
    part,  \* the module that moves
    stage, check, migrating, deaths,
    job, holder, proc, row, pass, hand, crashes, drops, requeues, excused

M == INSTANCE StartupMigration WITH proc <- migrating, crashes <- deaths
J == INSTANCE JobClaims WITH kind <- job

\* What the modules assume of their constants.
ASSUME ServerConstants ==
    /\ Parts \subseteq {"schema", "stages", "jobs"}
    /\ M!StartAssumption
    /\ J!JobAssumption

mVars == <<stage, check, migrating, deaths>>
jVars == <<job, holder, proc, row, pass, hand, crashes, drops, requeues, excused>>
serverVars == <<part, vars, mVars, jVars>>

\* A part that rests does so at one of its initial states.
ServerInit ==
    /\ part \in Parts
    /\ Init /\ M!Init /\ J!Init
    /\ part # "schema" => \A p \in Processes : at[p] = 1
    /\ part # "stages" => check = M!First /\ \A a \in Apps : stage[a] = "applied"
    /\ part # "jobs" => job = "cv"

ServerNext ==
    \/ part = "schema" /\ Next /\ UNCHANGED <<part, mVars, jVars>>
    \/ part = "stages" /\ M!Next /\ UNCHANGED <<part, vars, jVars>>
    \/ part = "jobs" /\ J!Next /\ UNCHANGED <<part, vars, mVars>>

ServerSpec == ServerInit /\ [][ServerNext]_serverVars
\* Of the parts, the jobs have fairness.
FairServerSpec == ServerSpec /\ J!Fairness

\* Processes, and applications, are interchangeable.
Symmetry == Permutations(Processes) \cup Permutations(Apps)

\* Bound: of two processes that migrate side by side, one is at a statement about the tables of
\* interest, or has yet to begin; the others speak of neither and commute.
Apart ==
    \A p, q \in Migrating :
        \E r \in {p, q} : p = q \/ at[r] = 1 \/ Tied(at[r], Old \cup Flaky)

-----------------------------------------------------------------------------
\* Stages of older releases are gone, but one (StartupMigration).
OnlyTheOldBotLeft == M!OnlyTheOldBotLeft
\* Stages of today are left alone (StartupMigration).
CurrentStagesStand == M!CurrentStagesStand
\* The lock lets one process run the loops (JobClaims).
OneRunner == J!OneRunner
\* Nobody is mailed twice for a row whose mail is recorded and whose claim stands (JobClaims).
MailedOnce == J!MailedOnce
\* A process that is up takes the lock over (JobClaims).
SomebodyRuns == J!SomebodyRuns
\* What is claimed settles (JobClaims).
RowsSettle == J!RowsSettle
=============================================================================
