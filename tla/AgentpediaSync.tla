--------------------------- MODULE AgentpediaSync ---------------------------
(***************************************************************************)
(* Agentpedia pins are mined, and the aggregator (internal/agentpedia/l2.go) *)
(* pulls them through the pages of the listing service, path by path,      *)
(* newest first, and replays what it has pooled.  state is what a replay   *)
(* of the whole chain has come to.                                         *)
(*                                                                         *)
(* A sweep holds the mutex from its first page to its last, so there is    *)
(* one at a time and no query between its pages.                           *)
(***************************************************************************)
EXTENDS Agentpedia

CONSTANTS
    Stories,    \* what is written: [pins, sweeps, fails, skips, sightings, slack]
    Jumps,      \* bound: extra blocks that may pass before a pin
    PageSize,   \* size of a page (100)
    MaxPages    \* pages of one path in one sweep (50)

ASSUME SyncAssumption ==
    /\ PageSize \in Nat \ {0} /\ MaxPages \in Nat \ {0} /\ Jumps \subseteq Nat
    /\ \A story \in Stories :
          /\ story.pins \in Seq(Range(story.pins)) /\ IsInjective([i \in DOMAIN story.pins |-> story.pins[i].pin])
          /\ \A e \in Range(story.pins) :
                /\ {"pin", "path", "op", "params", "wait", "h", "tx"} \subseteq DOMAIN e
                /\ e.pin \in Nat /\ e.wait \in Nat
                /\ e.path = "constitution" /\ e.op = "genesis" => "bootDays" \in DOMAIN e.params

Paths == <<"constitution", "rev", "challenge", "ruling", "review", "editor", "param-proposal">>

VARIABLES
    todo,    \* the pins of the story still to be mined
    left,    \* bounds: sweeps, failures, losses, sightings and slack that are left
    chain,   \* the mined pins
    state,   \* what Apply made of them
    seen,    \* seenPins
    pool,    \* events
    skipped, \* pins whose payload could not be had
    view,    \* what the last rebuild returned
    sweep,   \* the sweep in progress: path, cursor, pages of the path, applied
    sighted, \* pins the listing shows from the mempool
    due,     \* pins that were listed when a sweep came to the mined pins of their path
    torn,    \* a path was left after some of its pages, before the last new one
    behind   \* a sweep failed after it pooled pins, and none rebuilt since

chainVars == <<todo, chain, state, sighted>>
syncVars == <<seen, pool, skipped, view, sweep, due, torn, behind>>
vars == <<left, chainVars, syncVars>>

Top == <<2, 0, 0>>   \* the key before every other: an empty cursor
Idle == [path |-> 0, cursor |-> Top, pages |-> 0, applied |-> 0]

Init ==
    /\ \E story \in Stories : todo = story.pins /\ left = story
    /\ chain = <<>> /\ state = Start /\ sighted = {}
    /\ seen = {} /\ pool = {} /\ skipped = {} /\ view = View(Start, 0)
    /\ sweep = Idle /\ due = {} /\ torn = FALSE /\ behind = FALSE

Spend(what) == left[what] > 0 /\ left' = [left EXCEPT ![what] = @ - 1]

-----------------------------------------------------------------------------
(* The chain *)

\* Each pin waits a while after the one before; those in one block have
\* their order in it.
Mined(e, more) ==
    LET last == IF chain = <<>> THEN [h |-> 1, tx |-> -1] ELSE Last(chain)
        h == last.h + e.wait + more
    IN  [e EXCEPT !.h = h, !.tx = IF h = last.h THEN last.tx + 1 ELSE 0]

Add(e) ==
    /\ chain' = Append(chain, e)
    /\ state' = Apply(state, e)
    /\ sighted' = sighted \ {e.pin}
    /\ UNCHANGED syncVars

\* As the story goes.
Mine ==
    /\ todo # <<>>
    /\ todo' = Tail(todo)
    /\ Add(Mined(Head(todo), 0))
    /\ UNCHANGED left

\* Later than the story goes.
MineLate ==
    /\ todo # <<>>
    /\ \E more \in Jumps : Add(Mined(Head(todo), more))
    /\ todo' = Tail(todo)
    /\ Spend("slack")

\* Before the pin that was to be the next.
MineEarly ==
    /\ Len(todo) > 1
    /\ Add(Mined(todo[2], 0))
    /\ todo' = RemoveAt(todo, 2)
    /\ Spend("slack")

\* A pin of the story is never written, or never reaches this aggregator.
Omit ==
    /\ todo # <<>>
    /\ todo' = Tail(todo)
    /\ Spend("slack")
    /\ UNCHANGED <<chain, state, sighted, syncVars>>

\* A pin that is still to be mined is in the mempool.
Sight ==
    /\ \E e \in Range(todo) : e.pin \notin sighted /\ sighted' = sighted \cup {e.pin}
    /\ Spend("sightings")
    /\ UNCHANGED <<todo, chain, state, syncVars>>

-----------------------------------------------------------------------------
(* The listing service *)

OnPath(pins, path) == {e \in pins : e.path = path}

Confirmed == Range(chain)

\* Pins in the mempool are listed before all others.
ListKey(e) == IF e.pin \in sighted THEN <<1, 0, e.pin>> ELSE <<0, e.h, e.tx>>

After(k, j) ==
    \/ k[1] < j[1]
    \/ k[1] = j[1] /\ k[2] < j[2]
    \/ k[1] = j[1] /\ k[2] = j[2] /\ k[3] < j[3]

\* What is listed of a path after a cursor, newest first.
Listing(path, cursor) ==
    Sorted({e \in OnPath(Confirmed \cup {t \in Range(todo) : t.pin \in sighted}, path) :
              After(ListKey(e), cursor)},
           LAMBDA e, f : After(ListKey(f), ListKey(e)))

-----------------------------------------------------------------------------
(* SyncOnce *)

SweepPath == Paths[sweep.path]

\* A sweep begins: by the loop's ticker or by a request.
StartSweep ==
    /\ sweep = Idle
    /\ Spend("sweeps")
    /\ sweep' = [Idle EXCEPT !.path = 1]
    /\ UNCHANGED <<chainVars, seen, pool, skipped, view, due, torn, behind>>

\* Pins of a page that are news; those in the mempool are left for later.
NewOn(page) == {e \in Range(page) : e.pin \notin seen /\ e.pin \notin sighted}

\* Mutant: a path is done after its first page.
PathDone_First(page, more) == TRUE

\* A path is done when a page has a known pin, or none follows it.
PathDone(page, more) ==
    \/ ~more \/ sweep.pages + 1 = MaxPages
    \/ \E e \in Range(page) : e.pin \in seen

\* The pins of a page, in the order of the page; a payload that the listing
\* and the pin's own record lack is a pin skipped for good.
TakePage(page, more, lost) ==
    LET done == PathDone(page, more)
        news == NewOn(page)
    IN  /\ lost \subseteq news
        /\ seen' = seen \cup {e.pin : e \in news}
        /\ pool' = pool \cup (news \ lost)
        /\ skipped' = skipped \cup lost
        /\ sweep' = [path |-> IF done THEN sweep.path + 1 ELSE sweep.path,
                     cursor |-> IF done THEN Top ELSE ListKey(Last(page)),
                     pages |-> IF done THEN 0 ELSE sweep.pages + 1,
                     applied |-> sweep.applied + Cardinality(news \ lost)]

FetchPage ==
    LET listing == Listing(SweepPath, sweep.cursor)
        page == Page(listing, 0, PageSize)
    IN  /\ sweep.path \in DOMAIN Paths
        /\ \/ TakePage(page.items, page.more, {}) /\ UNCHANGED left
           \/ /\ Spend("skips")
              /\ \E e \in NewOn(page.items) : TakePage(page.items, page.more, {e})
        /\ due' = due \cup (IF sweep.cursor[1] # 0 THEN OnPath(Confirmed, SweepPath) ELSE {})
        /\ torn' = (torn \/ (page.more /\ sweep.pages + 1 = MaxPages))
        /\ UNCHANGED <<chainVars, view, behind>>

\* fetchPage fails and SyncOnce returns: what was pooled stays pooled.
FetchFails ==
    /\ sweep.path \in DOMAIN Paths
    /\ Spend("fails")
    /\ sweep' = Idle
    /\ behind' = (behind \/ sweep.applied > 0)
    /\ torn' = (torn \/ (sweep.pages > 0 /\ Listing(SweepPath, sweep.cursor) # <<>>))
    /\ UNCHANGED <<chainVars, seen, pool, skipped, view, due>>

\* The view is rebuilt when the sweep brought something.
EndSweep ==
    /\ sweep.path = Len(Paths) + 1
    /\ sweep' = Idle
    /\ IF sweep.applied > 0 THEN view' = Replay(pool) /\ behind' = FALSE
       ELSE UNCHANGED <<view, behind>>
    /\ UNCHANGED <<left, chainVars, seen, pool, skipped, due, torn>>

\* The story is over.
Done ==
    /\ todo = <<>> /\ sweep = Idle /\ left.sweeps = 0
    /\ UNCHANGED vars

Next ==
    \/ Mine \/ MineLate \/ MineEarly \/ Omit \/ Sight
    \/ StartSweep \/ FetchPage \/ FetchFails \/ EndSweep
    \/ Done

Spec == Init /\ [][Next]_vars

-----------------------------------------------------------------------------
(* Properties *)

TypeOK ==
    /\ DOMAIN left = {"pins", "sweeps", "fails", "skips", "sightings", "slack"}
    /\ pool \subseteq Confirmed /\ skipped \subseteq Confirmed /\ due \subseteq Confirmed
    /\ sweep.path \in 0..(Len(Paths) + 1) /\ sweep.pages \in 0..(MaxPages - 1)
    /\ DOMAIN state.grave \subseteq {e.pin : e \in Confirmed}
    /\ torn \in BOOLEAN /\ behind \in BOOLEAN

Pins(path, op) == {e \in Confirmed : e.path = path /\ e.op = op}

\* Those among the endorsers whose endorsement came no later than a given one.
Backers(ed, id, last) ==
    {b \in ed.endorsed \ {id} : \E x \in Pins("editor", "endorse") :
        x.by = b /\ x.who = id /\ ~ChainOrder(last, x)}

\* Nobody but a founder is an editor without all the steps, in order and in
\* time: challenged by an editor, a review pinned as proof of work within the
\* hour of the challenge, a stake, and endorsements by enough others, twice
\* as many in the bootstrap window; membership counts from the stake
\* (applyEditor).
MembersAreEarned ==
    \A id \in DOMAIN state.eds \ state.founders :
        LET ed == state.eds[id]
        IN  ed.reg # NotYet =>
              \E c \in Pins("editor", "challenge"), p \in Pins("editor", "poc-response"),
                 r \in Pins("editor", "register"), last \in Pins("editor", "endorse") :
                 /\ c.who = id /\ p.by = id /\ r.by = id /\ last.who = id
                 /\ p.ref = c.pin /\ r.ref = c.pin
                 /\ ChainOrder(c, p) /\ ChainOrder(p, r) /\ ChainOrder(r, last)
                 /\ p.h - c.h <= BlocksPerHour
                 /\ \E v \in Confirmed : /\ v.path = "review" /\ v.pin = p.aux /\ v.by = id
                                         /\ ChainOrder(v, p)
                 /\ ed.reg = r.h
                 /\ Cardinality(Backers(ed, id, last))
                      >= IF last.h < state.bootEnd THEN 4 ELSE 2

\* Rules under which a proposal needs an approval and has some time.
Orderly(params) ==
    /\ {"quorum", "voteHours"} \subseteq DOMAIN params
    /\ params.quorum \in Nat \ {0} /\ params.voteHours \in Nat

\* The quorum is set once, and the hours of a vote are a number.
Steady(e) ==
    e.path = "constitution" =>
        IF e.op = "genesis" THEN Orderly(e.params)
        ELSE /\ "quorum" \notin DOMAIN e.params
             /\ "voteHours" \in DOMAIN e.params => e.params.voteHours \in Nat

\* What a theorem about rulings asks of the stories.
SteadyRules == \A story \in Stories : \A e \in Range(story.pins) : Steady(e)

\* The first vote of each voter after a proposal and before it expired.
FirstVotes(p) ==
    LET votes == {v \in Pins("ruling", "vote") : v.ref = p.pin /\ ChainOrder(p, v)}
    IN  {v \in votes : /\ v.h < state.props[p.pin].expiry
                       /\ ~\E w \in votes : w.by = v.by /\ ChainOrder(w, v)}

\* A ruling takes effect exactly if enough of the arbiters that were drawn
\* for it approved with their first vote in the voting window, and nobody is
\* banned without such a ruling (applyRuling, closeExpired, applyOutcome).
RulingsHaveQuorum ==
    /\ \A p \in Confirmed : p.pin \in DOMAIN state.props =>
          LET rec == state.props[p.pin]
              approvals == {v \in FirstVotes(p) : v.ok /\ v.by \in rec.arbiters}
          IN  rec.state = "effective" <=> Cardinality(approvals) >= state.params.quorum
    /\ \A id \in DOMAIN state.eds : state.eds[id].banned =>
          \E rec \in Range(state.props) :
             rec.state = "effective" /\ rec.outcome = "ban-editor" /\ rec.who = id

\* Rules of revisions, under which nobody gets the highest tier before the
\* first hours are over.
Firm(params) ==
    /\ {"rateG", "t0Hours", "t2Days", "warHours", "warT"} \subseteq DOMAIN params
    /\ params.rateG \in Nat /\ params.t0Hours \in Nat /\ params.t2Days \in Nat
    /\ params.warHours \in Nat \ {0} /\ params.warT \in Nat
    /\ params.t2Days * BlocksPerDay >= params.t0Hours * BlocksPerHour

\* The rules of revisions are set once.
Unbending(e) ==
    e.path = "constitution" =>
        IF e.op = "genesis" THEN Firm(e.params)
        ELSE {"rateG", "t0Hours", "t2Days", "warHours", "warT"} \cap DOMAIN e.params = {}

\* What a theorem about revisions asks of the stories.
FirmRules == \A story \in Stories : \A e \in Range(story.pins) : Unbending(e)

\* The places of a pin's revision in a history.
PlacesOf(e, r) == {i \in DOMAIN r.history : r.history[i] \in {Rev(e.pin), Equivalent(e.pin)}}

Admitted == {e \in Pins("rev", "create") \cup Pins("rev", "edit") \cup Pins("rev", "revert")
                  \cup Pins("rev", "redirect") : e.pin \notin DOMAIN state.grave}

\* A frozen record saw enough reverts in the window up to the one that froze
\* it, and since then only the arbiters drawn at that moment wrote to it.
FrozenFairly(r) ==
    \E f \in Pins("rev", "revert") :
        /\ f.pin = r.frozenAt
        /\ Cardinality({e \in Admitted : /\ e.op = "revert" /\ PlacesOf(e, r) # {}
                                         /\ ~ChainOrder(f, e)
                                         /\ e.h > f.h - state.params.warHours * BlocksPerHour})
             >= state.params.warT
        /\ \A e \in Admitted : PlacesOf(e, r) # {} /\ ChainOrder(f, e) => e.by \in r.arbiters

\* Every revision pin is either in the graveyard or in the history of one
\* record, once; nobody writes more than the day's rate, in their first hours
\* as an editor, or after they were revoked; and a record is frozen only by a
\* war of reverts, and then open to its arbiters only (applyRev,
\* checkRevGates).  The stories leave the rates and the first hours as they are.
RevsAreAdmitted ==
    /\ \A e \in Confirmed : e.path = "rev" =>
          Cardinality({at \in (DOMAIN state.recs) \X (1..Len(chain)) :
                         at[2] \in PlacesOf(e, state.recs[at[1]])})
            = IF e \in Admitted THEN 1 ELSE 0
    /\ \A e \in Admitted :
          /\ Cardinality({f \in Admitted : f.by = e.by /\ DayOf(state, f.h) = DayOf(state, e.h)})
               <= state.params.rateG
          /\ e.by \notin state.founders =>
                e.h >= state.eds[e.by].reg + state.params.t0Hours * BlocksPerHour
          /\ ~\E x \in Pins("editor", "revoke") :
                x.who = e.by /\ x.pin \notin DOMAIN state.grave /\ ChainOrder(x, e)
    /\ \A r \in Range(state.recs) : r.status = "frozen" => FrozenFairly(r)

\* Between sweeps the view is the replay of every pin that was mined when a
\* sweep came to the mined pins of its path, whatever was in the mempool, mined between two
\* pages or pulled by an earlier sweep; except for payloads that nobody has,
\* and unless a sweep broke off with pages of a path to go, or after pooling
\* pins that no sweep has replayed since (SyncOnce, rebuildLocked).
SyncedViewIsReplay ==
    sweep = Idle /\ ~torn /\ ~behind =>
        pool = due \ skipped /\ view = Replay(due \ skipped)

=============================================================================
