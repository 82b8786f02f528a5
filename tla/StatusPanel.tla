----------------------------- MODULE StatusPanel -----------------------------
(***************************************************************************)
(* The widget of a run (utils/workflow/workflow-widgets.ts and             *)
(* extensions/agent-workflow.ts): when it is painted, and which rows of    *)
(* roster, checklists and tool trail find room in it.  A row is its kind   *)
(* and the number of what it shows.                                        *)
(***************************************************************************)
EXTENDS Integers, FiniteSets, SequencesExt

CONSTANTS Agents,    \* the team, in the order of its phases, the reviewer last
          Heights,   \* bound: heights of the terminal
          Columns,   \* bound: cards that fit beside each other
          MaxTodos,  \* bound: phases of the plan
          Checks,    \* bound: items of a review
          MaxLog     \* bound: lines of an agent's log

ASSUME PanelAssumption ==
  /\ Agents \in Seq(STRING) /\ Agents # <<>> /\ Columns \in Nat \ {0} /\ Heights \subseteq Nat
  /\ MaxTodos \in Nat /\ Checks \in Nat /\ MaxLog \in Nat

VARIABLES
  full, rows,    \* PI_WORKFLOW_WIDGET=full; the terminal's rows
  flow,          \* a run, a dispatch, or none of them: "run", "dispatch", "no"
  phases,        \* their states
  reviewed,      \* is the reviewer among them, then as the last
  todos,         \* progress.md [done, total]
  ticked, marks, \* items the reviewer's log names; items the panel has seen
  log,           \* lines of the running agent's log
  cleared, screen, \* after /agent-workflow-clear; is the widget on the screen
  fresh,         \* does it show the present state of the phases
  timer, gap     \* a trailing paint is due; 80 ms have passed since the last one

shown == <<full, rows>>
work == <<flow, phases, reviewed, todos, ticked, log>>
paint == <<marks, screen, fresh, timer, gap>>
panelVars == <<shown, work, cleared, paint>>

Least(a, b) == IF a < b THEN a ELSE b
Most(a, b) == IF a > b THEN a ELSE b
Row(k, n) == [k |-> k, n |-> n]
Rows(k, n) == [i \in 1 .. Most(0, n) |-> Row(k, i)]

Active == {i \in DOMAIN phases : phases[i] = "running"}
Reviewer == IF reviewed THEN Last(phases) ELSE "pending"

\* buildReviewChecklist.
Review == CASE Reviewer = "pending" -> [done |-> 0, total |-> 0]
            [] Reviewer = "running" -> [done |-> marks, total |-> Checks]
            [] OTHER -> [done |-> IF Reviewer = "done" THEN Checks ELSE 0, total |-> Checks]

-----------------------------------------------------------------------------
(* The status lines: renderStatusWidget, widgetBudget, activityLineCount.  *)

PiBudget == 10
Budget == Most(PiBudget, rows - 8 - 6)
Trail == IF Active = {} THEN 0 ELSE Least(log, Most(5, Budget - 4))
Floor == Least(Trail, 3)

Wants(led) == IF led.total = 0 THEN 0 ELSE IF led.done >= led.total THEN 1 ELSE led.total + 1

Available == Most(1, Budget - 1 - Wants(todos) - Wants(Review) - Floor)
Roster(n, room) == IF n > room THEN Most(1, room - 1) ELSE n
More(n, fit) == IF n > fit THEN <<Row("more", n - fit)>> ELSE <<>>

\* Mutant: the list is cut where the room ends.
ChecklistCut(k, led, room) ==
  IF led.total = 0 THEN <<>>
  ELSE <<Row(k, 0)>> \o IF led.done >= led.total THEN <<>>
                        ELSE Rows(k, Least(led.total, Most(room - 1, 0)))

\* ledgerRows: the heading, and all of the items or none.
Checklist(k, led, room) ==
  IF led.total = 0 THEN <<>>
  ELSE <<Row(k, 0)>> \o IF led.done >= led.total \/ room < led.total + 1 THEN <<>>
                        ELSE Rows(k, led.total)

Idle ==
  LET n == Len(Agents)
      fit == Roster(n, Budget - 3)
  IN Rows("head", 3) \o Rows("agent", fit) \o More(n, fit)

Status ==
  LET n == Len(phases)
      fit == Roster(n, Available)
      head == Rows("head", 1) \o Rows("agent", fit) \o More(n, fit)
      room == Budget - Len(head) - Floor
      first == Checklist("todo", todos, room)
  IN head \o first \o Checklist("check", Review, room - Len(first)) \o Rows("trail", Trail)

Compact ==
  LET all == IF phases = <<>> THEN Idle ELSE Status
  IN SubSeq(all, 1, Least(Len(all), Budget))

-----------------------------------------------------------------------------
\* The dashboard of cards: buildFullWidgetLines, appendLiveLog, clampWidget.

Card == 7
Grid(n) == Rows("head", 3) \o Rows("card", Card * ((n + Columns - 1) \div Columns))
Pipeline == Rows("head", 2) \o Rows("card", Card)

\* renderTodos: the rows are claimed before there is a ledger.
Todos == IF todos.total > 0 THEN Rows("todo", todos.total + 2)
         ELSE IF flow = "run" THEN Rows("todo", 3) ELSE <<>>

Checked == IF Review.total = 0 THEN <<>> ELSE Rows("check", Review.total + 2)

\* Down to the rows of the editor and the footer, whatever there is to show.
LiveLog(above) ==
  IF flow = "no" /\ (Active = {} \/ log = 0) THEN <<>>
  ELSE Rows("rule", 2) \o Rows("log", Most(3, Least(24, rows - (above + 2) - 8)))

Cards ==
  LET above == IF flow # "dispatch" THEN Pipeline \o Todos \o Checked
               ELSE Grid(Len(phases)) \o Checked
  IN IF phases = <<>> THEN Grid(Len(Agents)) ELSE above \o LiveLog(Len(above))

\* clampWidget.
ClampRows == Most(2, Most(3, rows - 8) - 1)
Clamp(lines) ==
  IF Len(lines) <= ClampRows THEN lines
  ELSE SubSeq(lines, 1, Most(1, ClampRows - 1)) \o <<Row("clipped", Len(lines) - ClampRows + 1)>>

Frame == IF full THEN Clamp(Cards) ELSE Compact

-----------------------------------------------------------------------------
PanelInit ==
  /\ full \in BOOLEAN /\ rows \in Heights
  /\ flow = "no" /\ phases = <<>> /\ reviewed = FALSE
  /\ todos \in {[done |-> 0, total |-> t] : t \in {0, MaxTodos}}
  /\ ticked = 0 /\ marks = 0 /\ log = 0
  /\ cleared = FALSE /\ screen = TRUE /\ fresh = TRUE /\ timer = FALSE /\ gap = TRUE

\* What a build reads: the reviewer's markers, which only the cards' panel scans and forgets.
Scan ==
  marks' = IF ~full THEN marks
           ELSE IF Reviewer' = "running" THEN Most(marks, ticked') ELSE 0

\* Mutant of updateWidget: within 80 ms of a paint, none.
TouchDropped ==
  CASE cleared' -> UNCHANGED <<marks, screen, timer, gap>> /\ fresh' = FALSE
    [] ~cleared' /\ gap -> Scan /\ screen' = TRUE /\ fresh' = TRUE /\ gap' = FALSE /\ timer' = FALSE
    [] OTHER -> fresh' = FALSE /\ UNCHANGED <<marks, screen, timer, gap>>

\* updateWidget: at most one paint in 80 ms, the last one late rather than not at all.
Touch ==
  CASE cleared' -> UNCHANGED <<marks, screen, timer, gap>> /\ fresh' = FALSE
    [] ~cleared' /\ gap -> Scan /\ screen' = TRUE /\ fresh' = TRUE /\ gap' = FALSE /\ timer' = FALSE
    [] OTHER -> timer' = TRUE /\ fresh' = FALSE /\ UNCHANGED <<marks, screen, gap>>

Due ==
  /\ timer /\ timer' = FALSE /\ gap' = FALSE /\ fresh' = TRUE /\ screen' = TRUE
  /\ UNCHANGED <<shown, work, cleared>> /\ Scan

Passes ==
  /\ ~gap /\ ~timer /\ gap' = TRUE
  /\ UNCHANGED <<shown, work, cleared, marks, screen, fresh, timer>>

\* Mutant: the paint that is due is not cancelled.
ClearOnly ==
  /\ cleared' = TRUE /\ screen' = FALSE
  /\ UNCHANGED <<shown, work, marks, fresh, gap, timer>>

\* /agent-workflow-clear.
ClearPanel ==
  /\ cleared' = TRUE /\ screen' = FALSE /\ timer' = FALSE
  /\ UNCHANGED <<shown, work, marks, fresh, gap>>

\* A run starts, on the widget; of a dispatch any update uncovers it, unless a run is under way.
StartRun ==
  /\ flow # "run" /\ flow' = "run" /\ cleared' = FALSE
  /\ phases' = [i \in DOMAIN Agents |-> "pending"] /\ reviewed' = TRUE /\ log' = 0 /\ ticked' = 0
  /\ UNCHANGED <<shown, todos>> /\ Touch

\* The dispatches of a request, of the reviewer too or not.
Dispatch(n, ofReviewer) ==
  /\ flow # "run" /\ Active = {} /\ flow' = "dispatch" /\ cleared' = FALSE
  /\ phases' = [i \in 1 .. n |-> "pending"] /\ reviewed' = ofReviewer /\ log' = 0 /\ ticked' = 0
  /\ UNCHANGED <<shown, todos>> /\ Touch

\* A phase starts, in a run after those before it, and ends.
Phase(i, how) ==
  /\ flow # "no" /\ i \in DOMAIN phases
  /\ flow = "run" /\ how = "running" => \A j \in 1 .. i - 1 : phases[j] # "pending"
  /\ phases[i] = IF how = "running" THEN "pending" ELSE "running"
  /\ phases' = [phases EXCEPT ![i] = how] /\ log' = IF how = "running" THEN 0 ELSE log
  /\ cleared' = (cleared /\ flow = "run")
  /\ UNCHANGED <<shown, flow, reviewed, todos, ticked>> /\ Touch

\* An event of a running agent's stream: a line; a marker of the reviewer.
Streams(n, mark) ==
  /\ Active # {} /\ log < MaxLog /\ log' = Least(log + n, MaxLog)
  /\ ticked' = IF mark /\ Reviewer = "running" /\ ticked < Checks THEN ticked + 1 ELSE ticked
  /\ UNCHANGED <<shown, flow, phases, reviewed, todos, cleared>> /\ Touch

EndRun ==
  /\ flow = "run" /\ Active = {} /\ flow' = "no"
  /\ UNCHANGED <<shown, phases, reviewed, todos, ticked, log, cleared>> /\ Touch

\* Files change without a word; the terminal is resized, which rebuilds the rows.
Ledger(t) ==
  /\ Active # {} /\ todos' = t /\ t.total = MaxTodos /\ t.done >= todos.done
  /\ UNCHANGED <<shown, flow, phases, reviewed, ticked, log, cleared, paint>>

Resize(r) ==
  /\ rows' = r /\ UNCHANGED <<full, work, cleared, paint>>

PanelNext ==
  \/ Due \/ Passes \/ ClearPanel \/ StartRun \/ EndRun
  \/ \E n \in DOMAIN Agents, b \in BOOLEAN : Dispatch(n, b)
  \/ \E i \in DOMAIN Agents, how \in {"running", "done", "error"} : Phase(i, how)
  \/ \E n \in {1, MaxLog}, mark \in BOOLEAN : Streams(n, mark)
  \/ \E d \in 0 .. MaxTodos : Ledger([done |-> d, total |-> MaxTodos])
  \/ \E r \in Heights : Resize(r)

PanelSpec == PanelInit /\ [][PanelNext]_panelVars

-----------------------------------------------------------------------------
Of(k) == {i \in DOMAIN Frame : Frame[i].k = k}

(***************************************************************************)
(* The status lines leave no agent and no item out silently: the agents    *)
(* shown and those counted are all, and a checklist is there with all its  *)
(* items or with none ("a truncated checklist reads as the whole           *)
(* checklist"), at every height and with every mix of them, in a run and   *)
(* in a dispatch.                                                          *)
(***************************************************************************)
NothingHidden ==
  ~full =>
    /\ LET n == IF phases = <<>> THEN Len(Agents) ELSE Len(phases)
           more == Of("more")
       IN Cardinality(Of("agent")) + (IF more = {} THEN 0 ELSE Frame[CHOOSE i \in more : TRUE].n) = n
    /\ Cardinality(Of("todo")) \in {0, 1, 1 + todos.total}
    /\ Cardinality(Of("check")) \in {0, 1, 1 + Checks}

(***************************************************************************)
(* After /agent-workflow-clear the widget stays away until a run or a      *)
(* dispatch, also when a paint was due.                                    *)
(***************************************************************************)
ClearedStaysGone == cleared => ~screen

(***************************************************************************)
(* However dense the events, a state not yet painted has a paint due,      *)
(* unless the widget was cleared.                                          *)
(***************************************************************************)
LastStatePaints == ~fresh => timer \/ cleared

(***************************************************************************)
(* What the widget shows, and when.                                        *)
(***************************************************************************)
PanelHolds == NothingHidden /\ ClearedStaysGone /\ LastStatePaints
=============================================================================
