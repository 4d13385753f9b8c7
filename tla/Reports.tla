-------------------------------- MODULE Reports --------------------------------
(***************************************************************************)
(* The read side of the collector (GET /events, /sessions and /stats/* in  *)
(* src/core/observability/server.mjs): what the dashboard is told about    *)
(* the tables events, turns, turn_cursor, session_labels and usage.  Pure  *)
(* operators over sets of rows, as the queries are.                        *)
(*                                                                         *)
(* A row of events has `session', `app' and `tool' beside the fields of    *)
(* Turns; `since' is the start of the window.  Costs are exact: rounding   *)
(* to 4 digits and the conversion to millions of tokens are left out.      *)
(***************************************************************************)
EXTENDS Turns

CONSTANTS
  AnyApp,     \* no source_app filter
  NoOffset,   \* a nudge whose byteOffset could not be read
  Pricing,    \* PRICING: prefix of a model's name |-> its rates
  MegaTurns, MegaCtx,      \* OBS_MEGA_TURNS, OBS_MEGA_CTX
  CompactFloor, Caps       \* a context worth a compact marker; the caps of the what-if

Total(S, f(_)) == MapThenSumSet(f, S)
Grouped(S, key(_)) == [k \in {key(r) : r \in S} |-> {r \in S : key(r) = k}]
Counts(S, key(_)) == LET g == Grouped(S, key) IN [k \in DOMAIN g |-> Cardinality(g[k])]
Latest(S, at(_)) == CHOOSE m \in {at(r) : r \in S} : \A r \in S : at(r) <= m
Earliest(S, at(_)) == CHOOSE m \in {at(r) : r \in S} : \A r \in S : m <= at(r)
Within(r, at, since, app) == at >= since /\ app \in {AnyApp, r.app}
At(r) == r.at
StartedAt(r) == r.started_at

(* The first n of a set in descending order of a key.                      *)
TopN(S, key(_), n) ==
  LET sorted == SetToSortSeq(S, LAMBDA a, b : key(a) > key(b))
  IN SubSeq(sorted, 1, Smaller(n, Len(sorted)))

-----------------------------------------------------------------------------
(* GET /events: one page of the rows the filters let through, after the    *)
(* cursor.                                                                 *)
EventsPage(events, asc, cursor, limit) ==
  LET rest == {r \in events : \A c \in cursor : IF asc THEN r.seq > c ELSE r.seq < c}
      page == TopN(rest, LAMBDA r : IF asc THEN -r.seq ELSE r.seq, limit)
  IN [events |-> page, next_cursor |-> IF page = <<>> THEN {} ELSE {Last(page).seq}]

-----------------------------------------------------------------------------
(* GET /stats/overview and /stats/sessions.                                *)

Errors(rows) == {r \in rows : r.type = "PostToolUse" /\ r.error}

(* Ended only when SessionEnd is the latest event: a resumed session is    *)
(* active again.                                                           *)
EndedNow(rows) ==
  \E e \in rows : e.type = "SessionEnd" /\ e.at >= Latest(rows, At)
ActiveNow(rows, now) == ~EndedNow(rows) /\ Latest(rows, At) >= now - ActiveMs

Overview(events, now, since, bucket_ms) ==
  LET rows     == {r \in events : r.at >= since}
      sessions == Grouped(rows, LAMBDA r : r.session)
      by_type  == Counts(rows, LAMBDA r : r.type)
      buckets  == Grouped(rows, LAMBDA r : (r.at \div bucket_ms) * bucket_ms)
  IN [events |-> Total(DOMAIN by_type, LAMBDA t : by_type[t]),
      errors |-> Cardinality(Errors(rows)),
      sessions |-> Cardinality(DOMAIN sessions),
      sessions_active |-> Cardinality({s \in DOMAIN sessions : ActiveNow(sessions[s], now)}),
      by_event_type |-> by_type,
      buckets |-> [t \in DOMAIN buckets |-> [count |-> Cardinality(buckets[t]),
                                             errors |-> Cardinality(Errors(buckets[t]))]]]

(* The captured label, else the first prompt there still is.               *)
FirstPromptOf(events, labels, s) ==
  LET label   == {l.prompt : l \in {l \in labels : l.session = s}}
      prompts == {r.seq : r \in {r \in events : r.session = s /\ r.type = "UserPromptSubmit"}}
  IN IF label # {} THEN label ELSE {p \in prompts : \A q \in prompts : p <= q}

OfType(rows, type) == Cardinality({r \in rows : r.type = type})

LiveItem(s, rows, now, prompt) ==
  [session |-> s, started_at |-> Earliest(rows, At), last_at |-> Latest(rows, At),
   turns |-> OfType(rows, "UserPromptSubmit"), tool_calls |-> OfType(rows, "PreToolUse"),
   errors |-> Cardinality(Errors(rows)), ended |-> EndedNow(rows),
   active |-> ActiveNow(rows, now), first_prompt |-> prompt, archival |-> FALSE]

LiveSessions(events, labels, now, since, app, limit) ==
  LET rows == Grouped({r \in events : Within(r, r.at, since, app)}, LAMBDA r : r.session)
  IN TopN({LiveItem(s, rows[s], now, FirstPromptOf(events, labels, s)) : s \in DOMAIN rows},
          LAMBDA i : i.last_at, limit)

(* Efficiency counts only the turns a human asked for.                     *)
Human(turns) == {t \in turns : ~t.auto /\ t.status # "virtual"}

(* Sessions known from their turn rows alone.                              *)
ArchivalItem(s, rows, prompt) ==
  [session |-> s, started_at |-> Earliest(rows, StartedAt),
   last_at |-> Latest(rows, LAMBDA t : t.ended_at), turns |-> Cardinality(Human(rows)),
   tool_calls |-> Total(rows, LAMBDA t : t.calls), errors |-> Total(rows, LAMBDA t : t.errors),
   ended |-> TRUE, active |-> FALSE, first_prompt |-> prompt, archival |-> TRUE]

ArchivalSessions(turns, labels, since, app, limit) ==
  LET rows == Grouped({t \in turns : Within(t, t.started_at, since, app)}, LAMBDA t : t.session)
  IN TopN({ArchivalItem(s, rows[s], FirstPromptOf({}, labels, s)) : s \in DOMAIN rows},
          LAMBDA i : i.last_at, limit)

(* Faulty: a session is listed once for each table that knows it.          *)
NotSeen(live, item) == TRUE

(* The events row wins.                                                    *)
Unseen(live, item) == \A k \in DOMAIN live : live[k].session # item.session

(* Sorted by last_at; sort is stable, so live ones come first among equals. *)
Merged(all, limit) ==
  LET order == SetToSortSeq(DOMAIN all, LAMBDA i, j :
                 \/ all[i].last_at > all[j].last_at
                 \/ all[i].last_at = all[j].last_at /\ i < j)
  IN [k \in 1 .. Smaller(limit, Len(all)) |-> all[order[k]]]

SessionList(events, turns, labels, now, since, app, limit) ==
  LET live     == LiveSessions(events, labels, now, since, app, limit)
      archival == ArchivalSessions(turns, labels, since, app, limit)
  IN Merged(live \o SelectSeq(archival, LAMBDA item : Unseen(live, item)), limit)

-----------------------------------------------------------------------------
(* GET /stats/tools: v_tool_calls, the calls with their answers.           *)

ToolCalls(events) ==
  {[pre |-> r, post |-> {p \in events : p.type = "PostToolUse" /\ p.id = r.id}] :
     r \in {r \in events : r.type = "PreToolUse" /\ r.id # NoId}}

(* The p-th percentile (num / den) of an ascending sequence, nearest rank. *)
Pct(sorted, num, den) ==
  IF sorted = <<>> THEN {} ELSE {sorted[Larger(1, (Len(sorted) * num + den - 1) \div den)]}

ToolStats(events, now, since, app) ==
  LET calls    == {c \in ToolCalls(events) : c.pre \in events /\ Within(c.pre, c.pre.at, since, app)}
      by_tool  == Grouped(calls, LAMBDA c : c.pre.tool)
      Took(c)  == (CHOOSE p \in c.post : TRUE).at - c.pre.at
      Stats(S) ==
        LET over == {c \in S : c.post # {}}
            d    == SetToSortSeq({<<Took(c), c.pre.seq>> : c \in over},
                      LAMBDA a, b : a[1] < b[1] \/ (a[1] = b[1] /\ a[2] < b[2]))
            ms   == [k \in DOMAIN d |-> d[k][1]]
        IN [calls |-> Cardinality(S),
            errors |-> Cardinality({c \in S : \E p \in c.post : p.error}),
            orphans |-> Cardinality({c \in S \ over : c.pre.at < now - ActiveMs}),
            pending |-> Cardinality({c \in S \ over : c.pre.at >= now - ActiveMs}),
            p50 |-> Pct(ms, 1, 2), p95 |-> Pct(ms, 19, 20), max |-> Pct(ms, 1, 1)]
  IN [t \in DOMAIN by_tool |-> Stats(by_tool[t])]

-----------------------------------------------------------------------------
(* Prices.  A row of usage has its tokens by kind; `create1h' is the part  *)
(* of the cache writes that is kept for an hour.                           *)

(* The rates of the longest prefix of the model's name.                    *)
PriceOf(model) ==
  LET known == {k \in DOMAIN Pricing : IsPrefix(k, model)}
  IN {Pricing[k] : k \in {k \in known : \A j \in known : Len(j) <= Len(k)}}

(* Cache writes: input * 1.25 for five minutes, twice the input for an     *)
(* hour, when the entry does not say.                                      *)
WriteRates(p) ==
  [short |-> IF p.write = 0 THEN (p.input * 5) \div 4 ELSE p.write, hour |-> p.input * 2]

WriteCost(p, u) ==
  LET hour == Smaller(u.create, Larger(0, u.create1h))
  IN (u.create - hour) * WriteRates(p).short + hour * WriteRates(p).hour

(* The four parts of a row's cost; nothing for a model without a price.    *)
CostParts(u) ==
  LET Sum(part(_)) == Total(PriceOf(u.model), part)
  IN [input  |-> Sum(LAMBDA p : u.input * p.input),
      write  |-> Sum(LAMBDA p : WriteCost(p, u)),
      read   |-> Sum(LAMBDA p : u.read * p.read),
      output |-> Sum(LAMBDA p : u.output * p.output)]
CostOf(u) == LET c == CostParts(u) IN c.input + c.write + c.read + c.output

Tokens(u) == u.input + u.output + u.create + u.read
Context(u) == u.input + u.create + u.read
Unpriced(rows) == Total({u \in rows : PriceOf(u.model) = {}}, Tokens)

-----------------------------------------------------------------------------
(* GET /stats/tokens.                                                      *)

(* group=session, app, model or bucket.                                    *)
TokenRow(rows) ==
  LET main == {u \in rows : ~u.sidechain}
      side == rows \ main
  IN [total |-> Total(main, Tokens), messages |-> Cardinality(main),
      subagent_total |-> Total(side, Tokens), subagent_messages |-> Cardinality(side),
      cost |-> Total(rows, CostOf), unpriced |-> Unpriced(rows)]

(* By session, by model, by bucket of time: `key' says which, of each row. *)
TokensBy(key) == [k \in Range(key) |-> TokenRow({u \in DOMAIN key : key[u] = k})]

(* A session's main chain in the order of time, and what it says: the      *)
(* context it has now and had at most, its changes of model and the cache  *)
(* they had to write again.                                                *)
MainChain(rows) == SetToSortSeq({u \in rows : ~u.sidechain}, LAMBDA u, v : u.ts < v.ts)

Enriched(rows) ==
  LET chain    == MainChain(rows)
      n        == Len(chain)
      switches == {k \in 2 .. n : chain[k].model # chain[k - 1].model}
      avg      == IF n = 0 THEN 0 ELSE Total(DOMAIN chain, LAMBDA k : Context(chain[k])) \div n
  IN [context |-> IF n = 0 THEN 0 ELSE Context(chain[n]),
      avg_ctx |-> avg,
      peak_ctx |-> IF n = 0 THEN 0 ELSE Latest(ToSet(chain), Context),
      model_switches |-> Cardinality(switches),
      switch_rewrite |-> Total(switches, LAMBDA k : CostParts(chain[k]).write),
      mega |-> n > 0 /\ (n >= MegaTurns \/ avg >= MegaCtx)]

(* group=timeline: the same chain of one session, whatever the window, its *)
(* sharp drops, and what a cap on the context had saved.                   *)
Timeline(usage, s) ==
  LET chain == MainChain({u \in usage : u.session = s})
      ctx   == [k \in DOMAIN chain |-> Context(chain[k])]
      Over(k, cap) ==
        Total(PriceOf(chain[k].model), LAMBDA p : Larger(0, chain[k].read - cap) * p.read)
  IN [series |-> [k \in DOMAIN chain |-> [ctx |-> ctx[k], cost |-> CostOf(chain[k])]],
      compact_markers |-> {k \in 2 .. Len(chain) :
                             ctx[k - 1] > CompactFloor /\ ctx[k] * 10 < ctx[k - 1] * 6},
      whatif |-> [cap \in Caps |-> Total(DOMAIN chain, LAMBDA k : Over(k, cap))]]

(* group=anatomy: the four parts, by model and in total.                   *)
SumOfParts(rows) ==
  [input |-> Total(rows, LAMBDA u : CostParts(u).input),
   write |-> Total(rows, LAMBDA u : CostParts(u).write),
   read |-> Total(rows, LAMBDA u : CostParts(u).read),
   output |-> Total(rows, LAMBDA u : CostParts(u).output)]

Anatomy(rows) ==
  LET by_model == Grouped({u \in rows : PriceOf(u.model) # {}}, LAMBDA u : u.model)
      sessions == Grouped({u \in rows : ~u.sidechain}, LAMBDA u : u.session)
  IN [rows |-> [m \in DOMAIN by_model |-> SumOfParts(by_model[m])],
      totals |-> SumOfParts(rows), unpriced |-> Unpriced(rows),
      baseline_ctx |-> Total(DOMAIN sessions, LAMBDA s : Earliest(sessions[s], Context))]

(* group=tool: a message's output is split over the calls it made, its     *)
(* input and cache writes over the calls it answers; what it read from the *)
(* cache is left out.  A share: one row's part for one call.               *)
Shares(rows, ids, rest) ==
  UNION {IF ids[u] = <<>> THEN {[of |-> u, id |-> NoId, k |-> 0, named |-> rest[u], n |-> 1]}
         ELSE {[of |-> u, id |-> ids[u][k], k |-> k, named |-> "", n |-> Len(ids[u])] :
                 k \in DOMAIN ids[u]} : u \in rows}

(* Faulty: the hour's part of the writes is not limited to the writes.     *)
InputCostUnclipped(u) ==
  Total(PriceOf(u.model), LAMBDA p :
    u.input * p.input + (u.create - u.create1h) * WriteRates(p).short
      + u.create1h * WriteRates(p).hour)

(* The cost is written out here a second time.                             *)
InputCost(u) ==
  LET Hour == Smaller(u.create, Larger(0, u.create1h))
  IN Total(PriceOf(u.model), LAMBDA p :
       u.input * p.input + (u.create - Hour) * WriteRates(p).short + Hour * WriteRates(p).hour)
OutputCost(u) == Total(PriceOf(u.model), LAMBDA p : u.output * p.output)

TokensByTool(rows, events) ==
  LET out == Shares(rows, [u \in rows |-> u.emitted], [u \in rows |-> "(response)"])
      inp == Shares(rows, [u \in rows |-> u.follows],
                    [u \in rows |-> IF u.sidechain THEN "(subagent)" ELSE "(prompt)"])
      ToolOf(x) ==
        LET pre == {r \in events : r.type = "PreToolUse" /\ r.id = x.id}
        IN IF x.named # "" THEN x.named
           ELSE IF pre = {} THEN "(unknown)" ELSE (CHOOSE r \in pre : TRUE).tool
      Row(name) ==
        LET o == {x \in out : ToolOf(x) = name}
            i == {x \in inp : ToolOf(x) = name}
        IN [output |-> Total(o, LAMBDA x : x.of.output \div x.n),
            input_cache |-> Total(i, LAMBDA x : (x.of.input + x.of.create) \div x.n),
            calls |-> Cardinality({x.id : x \in o \cup i} \ {NoId}),
            cost |-> Total(o, LAMBDA x : OutputCost(x.of) \div x.n)
                       + Total(i, LAMBDA x : InputCost(x.of) \div x.n)]
  IN [name \in {ToolOf(x) : x \in out \cup inp} |-> Row(name)]

-----------------------------------------------------------------------------
(* Rollups of the custom events.                                           *)

(* GET /stats/guards.                                                      *)
Guards(rows) ==
  LET By(S, d) == Cardinality({r \in S : r.decision = d})
      guards   == Grouped(rows, LAMBDA r : r.guard)
  IN [count |-> Cardinality(rows),
      by_guard |-> [g \in DOMAIN guards |->
                      [total |-> Cardinality(guards[g]), deny |-> By(guards[g], "deny"),
                       ask |-> By(guards[g], "ask"), warn |-> By(guards[g], "warn")]],
      by_rule |-> Counts(rows, LAMBDA r : <<r.guard, r.rule, r.decision>>),
      by_app |-> Counts(rows, LAMBDA r : r.app)]

(* A nudge and its outcome find each other by transcript and offset, or by *)
(* the time when the offset could not be read.                             *)
NudgeJoinKey(n) ==
  IF n.offset # NoOffset THEN <<n.transcript, "b", n.offset>> ELSE <<n.transcript, "t", n.ts>>

(* The verdict on a nudge: the last outcome said of it.                    *)
Verdicts(fire, outcomes) ==
  LET said == {o \in outcomes : NudgeJoinKey(o) = NudgeJoinKey(fire)}
  IN {o \in said : \A x \in said : x.seq <= o.seq}

(* GET /stats/nudges.                                                      *)
Nudges(fires, outcomes) ==
  LET judged(S)   == Total(S, LAMBDA f : Cardinality(Verdicts(f, outcomes)))
      complied(S) == Total(S, LAMBDA f :
                       Cardinality({o \in Verdicts(f, outcomes) : o.complied}))
      kinds == Grouped(fires, LAMBDA f : f.kind)
  IN [count |-> Cardinality(fires), outcomes |-> judged(fires), complied |-> complied(fires),
      by_kind |-> [k \in DOMAIN kinds |->
                     [count |-> Cardinality(kinds[k]), outcomes |-> judged(kinds[k]),
                      complied |-> complied(kinds[k])]]]

(* GET /stats/db.                                                          *)
DbQueries(rows, limit) ==
  LET alias == Grouped(rows, LAMBDA r : r.alias)
      Bad(S) == {r \in S : r.error}
  IN [count |-> Cardinality(rows), errors |-> Cardinality(Bad(rows)),
      by_alias |-> [a \in DOMAIN alias |->
                      [total |-> Cardinality(alias[a]), errors |-> Cardinality(Bad(alias[a])),
                       slowest |-> Latest(alias[a], LAMBDA r : r.elapsed)]],
      slow |-> TopN(rows, LAMBDA r : r.elapsed, limit)]

-----------------------------------------------------------------------------
(* GET /stats/turns and /stats/fleet-turns.                                *)

LatestN(seq, n) == SubSeq(seq, Larger(1, Len(seq) - n + 1), Len(seq))

(* The drill-down of one session: from its events, or, when retention has  *)
(* trimmed them all, from its rows in turns.                               *)
DrillDown(events, turns, usage, s, now, limit) ==
  LET rows == SetToSortSeq({r \in events : r.session = s}, LAMBDA a, b : a.seq < b.seq)
      kept == SetToSortSeq({t \in turns : t.session = s},
                           LAMBDA a, b : a.turn_seq < b.turn_seq)
      all  == BuildTurns(rows, now)
      uses == {u \in usage : u.session = s}
  IN IF rows = <<>> /\ kept # <<>>
     THEN [archival |-> TRUE, turns |-> LatestN(kept, limit)]
     ELSE [archival |-> FALSE, turns |-> LatestN(all, limit),
           usage_cost |-> Total(uses, CostOf),
           unattributed |-> Total({u \in uses : Charged(all, u) = {}}, CostOf)]

(* One turn of it, by its turn_seq: nothing of what is only archived.      *)
TurnDetail(events, s, turn_seq, now) ==
  LET rows == SetToSortSeq({r \in events : r.session = s}, LAMBDA a, b : a.seq < b.seq)
  IN {t \in ToSet(BuildTurns(rows, now)) : t.turn_seq = turn_seq}

(* Efficiency is of the human turns, cost of all of them; a turn with two  *)
(* flags counts under both.                                                *)
FleetTurns(turns, cursors, since, app, bucket_ms) ==
  LET rows    == {t \in turns : Within(t, t.started_at, since, app)}
      cost(S) == Total(S, LAMBDA t : t.cost + t.cost_subagent)
      calls(S) == Total(Human(S), LAMBDA t : t.calls)
      Flagged(f) == {t \in rows : f \in t.flags}
      Part(S) == [turns |-> Cardinality(S), human |-> Cardinality(Human(S)),
                  calls |-> calls(S), cost |-> cost(S)]
      by_app  == Grouped(rows, LAMBDA t : t.app)
      series  == Grouped(rows, LAMBDA t : (t.started_at \div bucket_ms) * bucket_ms)
  IN [totals |-> [settled_turns |-> Cardinality(rows), human_turns |-> Cardinality(Human(rows)),
                  calls |-> calls(rows),
                  cost |-> Total(rows, LAMBDA t : t.cost),
                  cost_subagent |-> Total(rows, LAMBDA t : t.cost_subagent),
                  unattributed |-> Total({c \in cursors : \E t \in rows : t.session = c.session},
                                         LAMBDA c : c.unattributed)],
      by_flag |-> [f \in UNION {t.flags : t \in rows} |->
                     [turns |-> Cardinality(Flagged(f)),
                      cost |-> Total(Flagged(f), LAMBDA t : t.cost)]],
      by_app |-> [a \in DOMAIN by_app |-> Part(by_app[a])],
      series |-> [t \in DOMAIN series |-> Part(series[t])]]
=============================================================================
