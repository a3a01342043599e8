-------------------------- MODULE ProctoringJudge --------------------------
(***************************************************************************)
(* Strikes of a proctored interview, counted twice: by the candidate's     *)
(* page as it goes (frontend/interview.html, _evalStrikeTick), and by the  *)
(* server, which replays the ledger the page posted when it is asked to    *)
(* end the interview (services/proctoring_scorer.py, score_session and     *)
(* judge_termination).                                                     *)
(*                                                                         *)
(* Time is counted in halves of the page's tick of five seconds, and the   *)
(* cooldown is three ticks.  A tick may start late and its inference may   *)
(* take a while: the page judges the cooldown by the time at the end of    *)
(* it, the server by the time at the start, which is what is posted.       *)
(* A post may be lost; ON CONFLICT makes a repeated one harmless.  What    *)
(* darkens the room and when the candidate dismisses a warning is the      *)
(* environment's choice.                                                   *)
(***************************************************************************)
EXTENDS Naturals, FiniteSets

CONSTANTS
    Types,     \* the flag types that occur
    Devices,   \* devices the candidate may use
    MaxTicks   \* bound: ticks of one interview

Order == <<"no_face", "multi_face", "face_away", "phone_detected", "unknown_object",
           "tab_switch", "screen_share_stopped">>

TypeAssumption == \A t \in Types : \E i \in DOMAIN Order : Order[i] = t
DeviceAssumption == Devices \subseteq {"laptop", "phone", "unknown"}
TickAssumption == MaxTicks \in Nat

VARIABLES
    device,    \* what the candidate sits at
    reported,  \* device_type the server was told, "unknown" if it was not
    tick,      \* ticks so far
    page,      \* the page's counters: run and last strike of each type, strikes, and its overlays
    ledger,    \* proctoring_flag_ledger: the flag types stored for each tick
    at,        \* when each tick started (client_timestamp of its rows) and was judged
    frozen,    \* ticks inside a low-light pause the server knows of
    upset      \* what has disturbed the ledger: lost posts, ticks under a warning, pauses,
               \* and cooldowns that were over by one of the clocks and not by the other

vars == <<device, reported, tick, page, ledger, at, frozen, upset>>

-----------------------------------------------------------------------------
MaxStrikes == 3
Ticks == 1 .. MaxTicks

Beat == 2
Cooldown == 3 * Beat
Times == [began : Nat, judged : Nat]
Never == [began |-> 0, judged |-> 0]
OnTheBeat(k) == [began |-> Beat * k, judged |-> Beat * k]
\* When a tick may start and be judged, before the next one is due.
Moments(k) == {[began |-> Beat * k + b, judged |-> Beat * k + e] : b \in 0 .. 1, e \in 0 .. 1}
                 \ {[began |-> Beat * k + 1, judged |-> Beat * k]}

\* STRIKE_PERSIST_DETECTIONS and the phone's exceptions, the same on both sides.
Persist(d) ==
    [no_face |-> IF d = "phone" THEN 8 ELSE 5, multi_face |-> 2,
     face_away |-> IF d = "phone" THEN 7 ELSE 4, phone_detected |-> 1, unknown_object |-> 1,
     tab_switch |-> 3, screen_share_stopped |-> 1]
Excluded(d) == IF d = "phone" THEN {"phone_detected"} ELSE {}
Tracked(d) == Types \ Excluded(d)

Fresh == [run |-> [t \in Types |-> 0], last |-> [t \in Types |-> Never], strikes |-> 0]

\* One evaluated tick: count or reset every type, then at most one strike, in Order.
Counted(d, c, F) == [t \in Types |-> IF t \in F \cap Tracked(d) THEN c.run[t] + 1 ELSE 0]
Due(d, c, run, now, clock) == {i \in DOMAIN Order :
                        /\ Order[i] \in Tracked(d)
                        /\ run[Order[i]] >= Persist(d)[Order[i]]
                        /\ \/ c.last[Order[i]] = Never
                           \/ now[clock] - c.last[Order[i]][clock] >= Cooldown}
Evaluated(d, c, F, now, clock) ==
    LET run == Counted(d, c, F)
        due == Due(d, c, run, now, clock)
        first == Order[CHOOSE i \in due : \A j \in due : i <= j]
    IN  IF due = {} THEN [c EXCEPT !.run = run]
        ELSE [run |-> [run EXCEPT ![first] = 0], last |-> [c.last EXCEPT ![first] = now],
              strikes |-> c.strikes + 1]

\* Mutant for ReplayAgrees: only ticks with a flag are replayed, so no run is ever reset.
ReplayedFlags ==
    LET replay[k \in 0 .. tick] ==
            IF k = 0 THEN Fresh
            ELSE IF k \in frozen \/ ledger[k] = {} THEN replay[k - 1]
            ELSE Evaluated(reported, replay[k - 1], ledger[k], at[k], "began")
    IN  replay[tick].strikes

\* score_session: every tick from the first one with a flag to the last, frozen ones skipped.
Replayed ==
    LET seen == {k \in 1 .. tick : ledger[k] \cap Tracked(reported) # {} /\ k \notin frozen}
        replay[k \in 0 .. tick] ==
            IF k = 0 THEN Fresh
            ELSE IF k \in frozen \/ \A j \in seen : j < k THEN replay[k - 1]
            ELSE Evaluated(reported, replay[k - 1], ledger[k], at[k], "began")
    IN  replay[tick].strikes

-----------------------------------------------------------------------------
Init ==
    /\ device \in Devices
    /\ reported = "unknown"
    /\ tick = 0
    /\ page = [count |-> Fresh, warned |-> FALSE, paused |-> FALSE, ended |-> FALSE, known |-> FALSE]
    /\ ledger = [k \in Ticks |-> {}]
    /\ at = [k \in Ticks |-> OnTheBeat(k)]
    /\ frozen = {}
    /\ upset = {}

\* POST /session/{id}/device, before the first tick.
SubmitDevice ==
    /\ tick = 0
    /\ reported' = device
    /\ UNCHANGED <<device, tick, page, ledger, at, frozen, upset>>

(* A tick of the detection loop.  Under a strike warning the flags are     *)
(* posted but not evaluated; a strike opens the warning, the third ends    *)
(* the interview.                                                          *)
Tick(F, posted, now) ==
    LET k == tick + 1
        c == IF page.warned THEN page.count ELSE Evaluated(device, page.count, F, now, "judged")
        struck == c.strikes > page.count.strikes
    IN
    /\ ~page.paused /\ ~page.ended
    /\ tick < MaxTicks
    /\ tick' = k
    /\ page' = [page EXCEPT !.count = c, !.warned = (@ \/ struck) /\ c.strikes < MaxStrikes,
                            !.ended = c.strikes >= MaxStrikes]
    /\ ledger' = IF posted THEN [ledger EXCEPT ![k] = F] ELSE ledger
    /\ at' = [at EXCEPT ![k] = now]
    /\ upset' = upset \cup (IF posted \/ F = {} THEN {} ELSE {"lost"})
                      \cup (IF page.warned THEN {"warned"} ELSE {})
                      \cup (IF c = Evaluated(device, page.count, F, now, "began") THEN {} ELSE {"clock"})
                      \cup (IF reported # device THEN {"device"} ELSE {})
    /\ UNCHANGED <<device, reported, frozen>>

\* strikeAcknowledge: the page's runs start anew, which no post tells the server.
Dismiss ==
    /\ page.warned
    /\ page' = [page EXCEPT !.warned = FALSE, !.count.run = Fresh.run]
    /\ upset' = IF page.count.run = Fresh.run THEN upset ELSE upset \cup {"warned"}
    /\ UNCHANGED <<device, reported, tick, ledger, at, frozen>>

(* The tick on which the room has been dark for long enough: nothing of it *)
(* is evaluated or posted, POST /pause tells the server when it arrives.   *)
Pause ==
    /\ ~page.paused /\ ~page.ended
    /\ tick < MaxTicks
    /\ tick' = tick + 1
    /\ \E known \in BOOLEAN : page' = [page EXCEPT !.paused = TRUE, !.known = known]
    /\ upset' = upset \cup {"paused"}
    /\ UNCHANGED <<device, reported, ledger, at, frozen>>

FrozenTick ==
    /\ page.paused
    /\ tick < MaxTicks
    /\ tick' = tick + 1
    /\ frozen' = IF page.known THEN frozen \cup {tick + 1} ELSE frozen
    /\ UNCHANGED <<device, reported, page, ledger, at, upset>>

\* lowLightContinue and POST /resume.
Resume ==
    /\ page.paused
    /\ page' = [page EXCEPT !.paused = FALSE, !.known = FALSE]
    /\ UNCHANGED <<device, reported, tick, ledger, at, frozen, upset>>

Next ==
    \/ SubmitDevice
    \/ \E F \in SUBSET Types, posted \in BOOLEAN :
          \E now \in IF F = {} THEN {OnTheBeat(tick + 1)} ELSE Moments(tick + 1) :
             Tick(F, posted, now)
    \/ Dismiss \/ Pause \/ FrozenTick \/ Resume

Spec == Init /\ [][Next]_vars

-----------------------------------------------------------------------------
\* The replay of a ledger counts what the page counted, on every device, as long as no post
\* was lost, no pause or warning interrupted a run, and no cooldown was over at the start of
\* a tick and not at its end, or the other way round (score_session, _evalStrikeTick).
ReplayAgrees == upset = {} => Replayed = page.count.strikes
=============================================================================
