------------------------------- MODULE MCReports -------------------------------
(***************************************************************************)
(* What the dashboard can be told, and the import of what it has not been  *)
(* told.  A behaviour is about one part of the system: the sessions and    *)
(* calls of MCTurns, the tables that the list of sessions is made of, the  *)
(* usage rows, the custom events, or an import of opencode's history.      *)
(***************************************************************************)
EXTENDS MCTurns, Reports, Backfill

CONSTANTS
  MaxStored,   \* bound: events stored in the tables
  MaxSessions, \* bound: sessions, numbered in the order of their first event
  MaxUsage,    \* bound: usage rows
  MaxCustom    \* bound: custom events

VARIABLES
  part,    \* what the behaviour is about
  log,     \* the table events
  stored,  \* the last seq
  kept,    \* the table turns
  labels,  \* the table session_labels
  begun,   \* history: first event and first prompt (or 0) of every session
  usage,   \* the table usage
  custom   \* custom events

tables == <<log, stored, kept, labels, begun>>
all_vars == <<part, turnVars, tables, usage, custom, import_vars>>

-----------------------------------------------------------------------------
(* The tables.                                                             *)

Today == stored + 1
Known == {b.session : b \in begun}
RowsOf(s) == SetToSortSeq({r \in log : r.session = s}, LAMBDA a, b : a.seq < b.seq)

(* A session may end under another app's name than it began under.         *)
Store(s, type, id) ==
  /\ stored < MaxStored /\ stored' = stored + 1
  /\ log' = log \cup {[seq |-> stored', type |-> type, id |-> id, agent |-> FALSE,
                       at |-> stored', error |-> type = "PostToolUse" /\ s = 1,
                       permission |-> FALSE, input |-> NoInput, session |-> s, tool |-> "Bash",
                       app |-> IF type = "SessionEnd" THEN "b" ELSE "a"]}
  /\ LET b == {b \in begun : b.session = s}
         prompt == IF type = "UserPromptSubmit" THEN stored' ELSE 0
     IN begun' = IF b = {} THEN begun \cup {[session |-> s, first |-> stored', prompt |-> prompt]}
                 ELSE (begun \ b) \cup
                        {[x EXCEPT !.prompt = IF @ = 0 THEN prompt ELSE @] : x \in b}
  /\ UNCHANGED <<kept, labels>>

StoreAny ==
  \E s \in 1 .. MaxSessions :
    /\ 1 .. s - 1 \subseteq Known
    /\ \/ \E type \in {"UserPromptSubmit", "SessionEnd"} : Store(s, type, NoId)
       \/ Store(s, "PreToolUse", stored + 1)
       \/ \E r \in log : /\ r.session = s /\ r.type = "PreToolUse"
                         /\ \A p \in log : p.type = "PostToolUse" => p.id # r.id
                         /\ Store(s, "PostToolUse", r.id)

(* The materializer in short (Materializer has all of it): a session that  *)
(* has not lost its first event is derived anew.                           *)
TurnRow(s, mine, t) ==
  [session |-> s, turn_seq |-> t.turn_seq, app |-> Last(mine).app, status |-> t.status,
   auto |-> FALSE, started_at |-> t.started_at, ended_at |-> t.ended_at,
   calls |-> Len(t.calls), flags |-> t.flags, cost |-> t.turn_seq, cost_subagent |-> 1,
   errors |-> Cardinality({c \in ToSet(t.calls) : c.status = "error"})]
Settled(s) ==
  LET mine == RowsOf(s)
      all  == BuildTurns(mine, Today)
  IN {TurnRow(s, mine, all[i]) :
        i \in {i \in DOMAIN all : i < Len(all) \/ \E r \in ToSet(mine) : r.type = "SessionEnd"}}
Swept ==
  LET whole == {b.session : b \in {b \in begun : \E r \in log : r.seq = b.first}}
  IN {t \in kept : t.session \notin whole} \cup UNION {Settled(s) : s \in whole}

Sweep == kept' = Swept /\ UNCHANGED <<log, stored, labels, begun>>

(* Retention: a sweep, the labels, and the oldest rows go.                 *)
Trim ==
  /\ kept' = Swept
  /\ labels' = {l \in [session : Known, prompt : 1 .. stored] :
                  FirstPromptOf(log, labels, l.session) = {l.prompt}}
  /\ \E n \in 1 .. Cardinality(log) :
       log' = {r \in log : Cardinality({q \in log : q.seq <= r.seq}) > n}
  /\ UNCHANGED <<stored, begun>>

-----------------------------------------------------------------------------
(* Usage rows, of the calls 1 and 2; and custom events.                    *)

Calls == {[seq |-> i, type |-> "PreToolUse", id |-> i, tool |-> IF i = 1 THEN "Read" ELSE "Bash"] :
            i \in {1, 2}}

Spent(model, input, output, create, create1h, read) ==
  [model |-> model, input |-> input, output |-> output, create |-> create,
   create1h |-> create1h, read |-> read]

MCPricing ==
  (<<"opus", "4">> :> [input |-> 4, output |-> 5, write |-> 6, read |-> 1]) @@
  (<<"opus", "4", "5">> :> [input |-> 8, output |-> 3, write |-> 0, read |-> 2])

(* A model with a price of its own, one that has a shorter name's, and one *)
(* without; writes for an hour, for less, and more than there are writes.  *)
Spendings ==
  {Spent(<<"opus", "4">>, 4, 2, 8, 4, 10), Spent(<<"opus", "4", "5">>, 2, 4, 4, 6, 0),
   Spent(<<"opus", "4">>, 0, 6, 2, 0, 2), Spent(<<"local">>, 6, 2, 0, 0, 4)}

Spend ==
  /\ Cardinality(usage) < MaxUsage
  /\ \E s \in {1, 2}, what \in Spendings, side \in BOOLEAN, calls \in {<< <<>>, <<>> >>, << <<1, 2>>, <<>> >>, << <<3>>, <<2>> >>, << <<>>, <<2>> >>} :
       LET ts == Cardinality(usage) + 1
       IN usage' = usage \cup
            {[id |-> ts, ts |-> ts, session |-> s, app |-> "a", sidechain |-> side,
              emitted |-> calls[1], follows |-> calls[2]] @@ what}

(* A nudge, an outcome said of one, a guard's decision, a query.           *)
Happen ==
  LET seq == Cardinality(custom) + 1
      Add(r) == custom' = custom \cup {[seq |-> seq] @@ r}
  IN /\ seq <= MaxCustom
     /\ \/ \E offset \in {0, NoOffset}, kind \in {"time", "size"} :
             Add([type |-> "NudgeFired", transcript |-> "t", offset |-> offset, ts |-> seq,
                  kind |-> kind])
        \/ \E offset \in {0, NoOffset}, ts \in 1 .. 2, complied \in BOOLEAN :
             Add([type |-> "NudgeOutcome", transcript |-> "t", offset |-> offset, ts |-> ts,
                  complied |-> complied])
        \/ \E guard \in {"bash", "git"}, decision \in {"deny", "warn", "other"} :
             Add([type |-> "GuardDecision", guard |-> guard, rule |-> "r",
                  decision |-> decision, app |-> "a"])
        \/ \E alias \in {"x", "y"}, error \in BOOLEAN :
             Add([type |-> "DbQuery", alias |-> alias, error |-> error, elapsed |-> seq])

-----------------------------------------------------------------------------
InitAll ==
  /\ InitTurns
  /\ part \in {"turns", "tables", "usage", "custom", "import"}
  /\ log = {} /\ stored = 0 /\ kept = {} /\ labels = {} /\ begun = {}
  /\ usage = {} /\ custom = {}
  /\ InitImport

NextAll ==
  \/ part = "turns"  /\ NextTurns /\ UNCHANGED <<part, tables, usage, custom, import_vars>>
  \/ part = "tables" /\ StoreAny /\ UNCHANGED <<part, turnVars, usage, custom, import_vars>>
  \/ part = "tables" /\ Sweep    /\ UNCHANGED <<part, turnVars, usage, custom, import_vars>>
  \/ part = "tables" /\ Trim     /\ UNCHANGED <<part, turnVars, usage, custom, import_vars>>
  \/ part = "usage"  /\ Spend    /\ UNCHANGED <<part, turnVars, tables, custom, import_vars>>
  \/ part = "custom" /\ Happen   /\ UNCHANGED <<part, turnVars, tables, usage, import_vars>>
  \/ part = "import" /\ NextImport /\ UNCHANGED <<part, turnVars, tables, usage, custom>>

SpecAll == InitAll /\ [][NextAll]_all_vars

-----------------------------------------------------------------------------
(* Properties.                                                             *)

(* When a session was last heard of.                                       *)
LastKnown(s) ==
  LET live == {r.at : r \in {r \in log : r.session = s}}
      over == {t.ended_at : t \in {t \in kept : t.session = s}}
  IN IF live # {} THEN live ELSE over

(* A list of at most limit sessions, for one app or any.                   *)
ListSound(list, limit, app) ==
  LET listed == {list[k].session : k \in DOMAIN list}
  IN /\ Len(list) <= limit /\ Cardinality(listed) = Len(list)
     /\ \A k \in 1 .. Len(list) - 1 : list[k].last_at >= list[k + 1].last_at
     /\ \A k \in DOMAIN list : \A b \in begun :
          b.session = list[k].session /\ b.prompt # 0 => list[k].first_prompt = {b.prompt}
     /\ app = AnyApp =>
          /\ \A k \in DOMAIN list :
               list[k].archival = DrillDown(log, kept, {}, list[k].session, Today, 1).archival
          /\ \A s \in Known \ listed : \A at \in LastKnown(s) :
               Len(list) = limit /\ \A k \in DOMAIN list : list[k].last_at >= at

(* The list of sessions is made of two queries, each cut at the limit, and *)
(* merged (server.mjs:1061, 1090).  Whatever retention took: no session is *)
(* listed twice; none is left out that was active later than one listed;   *)
(* none with events in the window is shown as archival; each keeps the     *)
(* first prompt it ever had as its label, and opens in the drill-down, as  *)
(* archival where the list says so.                                        *)
ListedOnce ==
  part = "tables" => \A limit \in 1 .. MaxSessions, app \in {AnyApp, "a"} :
    ListSound(SessionList(log, kept, labels, Today, 0, app, limit), limit, app)

Summed(f, field(_)) == MapThenSumSet(LAMBDA k : field(f[k]), DOMAIN f)

(* A client of GET /events that follows next_cursor.                       *)
Paged(asc, limit) ==
  LET Page(cursor) == EventsPage(log, asc, cursor, limit)
      Read(acc, page) == [got |-> acc.got \o page.events, cursor |-> page.next_cursor,
                          done |-> page.next_cursor = {}]
  IN FoldLeft(LAMBDA acc, k : IF acc.done THEN acc ELSE Read(acc, Page(acc.cursor)),
              [got |-> <<>>, cursor |-> {}, done |-> FALSE], [k \in 1 .. MaxStored + 1 |-> k]).got

OverviewAgrees(overview, list) ==
  /\ overview.sessions_active = Cardinality({k \in DOMAIN list : list[k].active})
  /\ overview.events = Cardinality(log)
  /\ Summed(overview.buckets, LAMBDA b : b.count) = overview.events
  /\ Summed(overview.buckets, LAMBDA b : b.errors) = overview.errors
  /\ Summed(list, LAMBDA item : item.errors) = overview.errors

CallsShown(turns) == MapThenSumSet(LAMBDA i : Len(turns[i].calls), DOMAIN turns)
ToolsAgree(tools) ==
  Summed(tools, LAMBDA t : t.calls) =
    MapThenSumSet(LAMBDA s : CallsShown(DrillDown(log, kept, {}, s, Today, MaxStored).turns),
                  {r.session : r \in log})

FleetAgrees(fleet) ==
  /\ Summed(fleet.by_app, LAMBDA a : a.cost) = fleet.totals.cost + fleet.totals.cost_subagent
  /\ Summed(fleet.series, LAMBDA a : a.calls) = fleet.totals.calls

(* The overview and the list of sessions count the same sessions as        *)
(* active, the tool statistics count the calls the drill-downs show, and a *)
(* client that follows next_cursor is given every event once, in order.    *)
TablesAgree ==
  /\ OverviewAgrees(Overview(log, Today, 0, 2),
                    LiveSessions(log, labels, Today, 0, AnyApp, MaxSessions))
  /\ ToolsAgree(ToolStats(log, Today, 0, AnyApp))
  /\ FleetAgrees(FleetTurns(kept, {}, 0, AnyApp, 2))
  /\ \A asc \in BOOLEAN, limit \in 1 .. 2 :
       Paged(asc, limit) = SetToSortSeq(log, LAMBDA a, b : IF asc THEN a.seq < b.seq
                                                           ELSE a.seq > b.seq)

(* However the tokens are grouped, the same rows are counted and priced,   *)
(* although the split by tool writes the prices out a second time: what it *)
(* leaves out is what was read from the cache, and nothing else.           *)
Whole(groups, anatomy) ==
  /\ Summed(groups, LAMBDA r : r.cost) = Total(usage, CostOf)
  /\ Summed(groups, LAMBDA r : r.total + r.subagent_total) = Total(usage, Tokens)
  /\ Summed(groups, LAMBDA r : r.unpriced) = anatomy.unpriced

WholeByTool(tools, anatomy) ==
  /\ Summed(tools, LAMBDA r : r.cost) = Total(usage, CostOf) - anatomy.totals.read
  /\ Summed(tools, LAMBDA r : r.output + r.input_cache) =
       Total(usage, Tokens) - Total(usage, LAMBDA u : u.read)

WholeByModel(models, anatomy) ==
  \A m \in DOMAIN anatomy.rows :
    Summed(anatomy.rows[m], LAMBDA cost : cost) = models[m].cost

ChainAgrees(mine, session, series) ==
  /\ Total(DOMAIN series, LAMBDA k : series[k].cost) = Total({u \in mine : ~u.sidechain}, CostOf)
  /\ \A k \in DOMAIN series : series[k].ctx <= session.peak_ctx
  /\ session.avg_ctx <= session.peak_ctx

TokensAgree ==
  /\ Whole(TokensBy([u \in usage |-> u.session]), Anatomy(usage))
  /\ Whole(TokensBy([u \in usage |-> u.model]), Anatomy(usage))
  /\ Whole(TokensBy([u \in usage |-> (u.ts \div 2) * 2]), Anatomy(usage))
  /\ WholeByTool(TokensByTool(usage, Calls), Anatomy(usage))
  /\ WholeByModel(TokensBy([u \in usage |-> u.model]), Anatomy(usage))
  /\ \A s \in {u.session : u \in usage} :
       LET mine == {u \in usage : u.session = s}
       IN ChainAgrees(mine, Enriched(mine), Timeline(usage, s).series)

(* A verdict that is sent twice counts once, a nudge has one verdict at    *)
(* most, and the rollups lose no event.                                    *)
Of(type) == {r \in custom : r.type = type}
RollupsAgree ==
  LET fires    == Of("NudgeFired")
      outcomes == Of("NudgeOutcome")
      nudges   == Nudges(fires, outcomes)
      guards   == Guards(Of("GuardDecision"))
      queries  == DbQueries(Of("DbQuery"), 2)
  IN /\ nudges.complied <= nudges.outcomes /\ nudges.outcomes <= nudges.count
     /\ Summed(nudges.by_kind, LAMBDA k : k.outcomes) = nudges.outcomes
     /\ \A o \in outcomes : (\A x \in outcomes : x.seq <= o.seq) =>
          nudges = Nudges(fires, outcomes \cup {[o EXCEPT !.seq = MaxCustom + 1]})
     /\ Summed(guards.by_guard, LAMBDA g : g.total) = guards.count
     /\ Summed(guards.by_rule, LAMBDA n : n) = guards.count
     /\ Summed(queries.by_alias, LAMBDA a : a.errors) = queries.errors
     /\ queries.count > 0 =>
          \E a \in DOMAIN queries.by_alias : queries.slow[1].elapsed = queries.by_alias[a].slowest

(* One question, several answers: what the views say of the same rows is   *)
(* the same, whichever of them is asked.                                   *)
ViewsAgree ==
  /\ part = "tables" => TablesAgree
  /\ part = "usage" => TokensAgree
  /\ part = "custom" => RollupsAgree
=============================================================================
