------------------------------ MODULE Agentpedia ------------------------------
(***************************************************************************)
(* The replay engine of Agentpedia (internal/agentpedia/replay.go): an     *)
(* encyclopedia whose entries, editors, disputes and rules are all pins in *)
(* a block.  Replay folds the pins in their order into a state; the module *)
(* has no variables, AgentpediaSync feeds it.                              *)
(*                                                                         *)
(* A pin is the number it was written as, a key of an entry is the slug,   *)
(* all in one language.  A revision that only a ruling or a revert makes   *)
(* is named after its pin.  The weights of reverts are a set, each with    *)
(* its pin: their order is never looked at.                                *)
(* arbiter-draw-v1 orders the candidates by a hash; any fixed order that   *)
(* depends on the seed does for the model.  The options that only the test *)
(* vectors set (injected arbiters, reputations, clusters) are left out.    *)
(***************************************************************************)
EXTENDS Records

CONSTANTS BlocksPerHour, BlocksPerDay

ASSUME AgentpediaAssumption ==
    BlocksPerHour \in Nat \ {0} /\ BlocksPerDay \in Nat \ {0}

NotYet == -1    \* registeredAt is nil

NoEntry == 0
NoRev == <<0, "">>
Rev(pin) == <<pin, "">>
Equivalent(pin) == <<pin, "eq">>     \* of a revert
Restored(pin) == <<pin, "rev">>      \* by a ruling

\* newReplayState; params is none until the genesis.
Start ==
    [params |-> None, genesis |-> 0, bootEnd |-> 0, founders |-> {}, eds |-> <<>>,
     entries |-> <<>>, recs |-> <<>>, alias |-> <<>>, grave |-> <<>>, challenges |-> <<>>,
     regs |-> <<>>, props |-> <<>>, votes |-> <<>>, reviews |-> {}, day |-> <<>>,
     slugDay |-> <<>>]

Grave(s, e, reason) == [s EXCEPT !.grave = With(@, e.pin, reason)]

NewEditor ==
    [founder |-> FALSE, reg |-> NotYet, pending |-> 0, endorsed |-> {}, rep |-> 0, revs |-> 0,
     until |-> 0, revoked |-> FALSE, banned |-> FALSE]

\* editorOf.
EditorOf(s, id) == IF id \in DOMAIN s.eds THEN s.eds[id] ELSE NewEditor

WithEditor(s, id, ed) == [s EXCEPT !.eds = With(@, id, ed)]

\* A key of an entry names a record; after a transfer two keys name one.
NewRecord(key) ==
    [key |-> key, head |-> NoRev, status |-> "normal", history |-> <<>>, disputed |-> {},
     contests |-> {}, versions |-> <<>>, redirect |-> NoEntry, frozenAt |-> 0,
     base |-> NoRev, arbiters |-> {}, weights |-> {}]

\* entryOf.
Opened(s, key) ==
    IF key \in DOMAIN s.entries THEN s
    ELSE [s EXCEPT !.entries = With(@, key, key), !.recs = With(@, key, NewRecord(key))]

RecordAt(s, key) == s.recs[s.entries[key]]

WithRecord(s, key, r) == [s EXCEPT !.recs[s.entries[key]] = r]

-----------------------------------------------------------------------------
(* Editors and arbiters *)

Inactive(ed, h) ==
    ed.revoked \/ ed.banned \/ ed.reg = NotYet \/ (ed.until # 0 /\ h < ed.until)

\* tierOf: in the bootstrap window founders have the highest tier.
TierOf(s, id, h) ==
    LET ed == EditorOf(s, id)
        age == h - ed.reg
        Highest == \/ ed.founder /\ h < s.bootEnd
                   \/ /\ age >= s.params.t2Days * BlocksPerDay
                      /\ ed.revs >= s.params.t2Revs
    IN  CASE Inactive(ed, h) -> "none"
          [] ~Inactive(ed, h) /\ Highest -> "T2"
          [] OTHER -> IF age < s.params.t0Hours * BlocksPerHour THEN "T0"
                      ELSE IF ed.revs >= s.params.t1Revs THEN "T1" ELSE "T0+"

IsActive(s, id, h) == TierOf(s, id, h) # "none"

ArbiterCandidates(s, h) == {id \in DOMAIN s.eds : TierOf(s, id, h) = "T2"}

\* ArbiterDraw: the first n in an order that the seed gives.
Draw(seed, candidates, n) ==
    LET Key(id) == (7 * seed + 5 * id) % 11
        Before(i, j) == Key(i) < Key(j) \/ (Key(i) = Key(j) /\ i < j)
    IN  {id \in candidates : Cardinality({j \in candidates : Before(j, id)}) < n}

Drawn(s, seed, h) == Draw(seed, ArbiterCandidates(s, h), s.params.drawN)

-----------------------------------------------------------------------------
(* Proposals that end *)

\* A proposal nobody decided is void; a frozen entry gets back the revision
\* the proposal named as its baseline.
Void(s, pin) ==
    LET p == s.props[pin]
        r == RecordAt(s, p.entry)
        neutral == [r EXCEPT !.status = "normal",
                             !.head = IF p.base # NoRev THEN p.base ELSE @]
    IN  [WithRecord(s, p.entry, IF r.status = "frozen" THEN neutral ELSE r)
           EXCEPT !.props[pin].state = "voided"]

\* Mutant: the vote stays open one block longer.
CloseExpired_Late(s, h) ==
    FoldLeft(Void, s,
             Sorted({pin \in DOMAIN s.props : /\ s.props[pin].state = "open"
                                              /\ h > s.props[pin].expiry},
                    LAMBDA i, j : i < j))

\* closeExpired, in the order of pins (the code ranges over a map).
CloseExpired(s, h) ==
    FoldLeft(Void, s,
             Sorted({pin \in DOMAIN s.props : /\ s.props[pin].state = "open"
                                              /\ h >= s.props[pin].expiry},
                    LAMBDA i, j : i < j))

Reputation ==
    ("confirm-goodfaith" :> 1) @@ ("warn-editor" :> -1) @@ ("slash-stake-half" :> -2)
    @@ ("slash-stake-full" :> -5) @@ ("ban-editor" :> -5)

\* The version a revert-to names may be gone from under the key by now.
RestoredVersion(r, p, pin) ==
    [hash |-> IF p.goal \in DOMAIN r.versions THEN r.versions[p.goal].hash ELSE 0,
     by |-> p.by, entry |-> p.entry]

\* What an outcome does to the entry.
OutcomeFor(s, pin, p, r) ==
    CASE p.outcome = "dismiss" ->
            [r EXCEPT !.disputed = @ \ {s.challenges[p.challenge].rev}]
      [] p.outcome = "revert-to" ->
            [r EXCEPT !.versions = With(@, Restored(pin), RestoredVersion(r, p, pin)),
                      !.head = Restored(pin), !.history = Append(@, Restored(pin))]
      [] p.outcome = "protect" -> [r EXCEPT !.status = "protected"]
      [] p.outcome = "unprotect" -> [r EXCEPT !.status = "normal"]
      [] p.outcome = "unfreeze" ->
            [r EXCEPT !.status = IF @ = "frozen" THEN "normal" ELSE @]
      [] OTHER -> r

\* transfer-slug: both keys lead to one record, and the source key shows
\* where it went.
Transferred(s, p) ==
    IF p.outcome = "transfer-slug" /\ p.from \in DOMAIN s.entries
    THEN [s EXCEPT !.entries = With(@, p.to, s.entries[p.from]),
                   !.alias = With(@, p.from, p.to)]
    ELSE s

Sanctioned(s, p) ==
    IF p.outcome \in DOMAIN Reputation
    THEN WithEditor(s, p.who, [EditorOf(s, p.who) EXCEPT
                                 !.rep = @ + Reputation[p.outcome],
                                 !.banned = @ \/ p.outcome = "ban-editor"])
    ELSE s

\* applyOutcome.
ApplyOutcome(s, pin) ==
    LET p == s.props[pin]
    IN  Sanctioned(
          Transferred([WithRecord(s, p.entry, OutcomeFor(s, pin, p, RecordAt(s, p.entry)))
                         EXCEPT !.props[pin].state = "effective"], p), p)

-----------------------------------------------------------------------------
(* Editor pins: how one becomes an editor, and stops being one *)

EditorChallenge(s, e) ==
    IF ~IsActive(s, e.by, e.h) THEN Grave(s, e, "unregistered")
    ELSE [s EXCEPT !.regs = With(@, e.pin,
            [who |-> e.who, by |-> e.by, h |-> e.h, poc |-> FALSE, stake |-> FALSE,
             regH |-> 0, regTx |-> 0, regPin |-> 0])]

\* Mutant: proof of work on time is not asked for.
PocResponse_AnyTime(s, e) ==
    LET rc == Entry(s.regs, e.ref)
    IN  CASE rc = None \/ (rc # None /\ rc.who # e.by) -> Grave(s, e, "poc-challenge-mismatch")
          [] OTHER ->
               IF ~\E r \in s.reviews : r.pin = e.aux /\ r.by = e.by
               THEN Grave(s, e, "poc-response-missing")
               ELSE [s EXCEPT !.regs[e.ref].poc = TRUE]

\* The applicant answers within the hour with a review of theirs.
PocResponse(s, e) ==
    LET rc == Entry(s.regs, e.ref)
    IN  CASE rc = None \/ (rc # None /\ rc.who # e.by) -> Grave(s, e, "poc-challenge-mismatch")
          [] OTHER ->
               IF e.h - rc.h > BlocksPerHour THEN Grave(s, e, "poc-window-exceeded")
               ELSE IF ~\E r \in s.reviews : r.pin = e.aux /\ r.by = e.by
               THEN Grave(s, e, "poc-response-missing")
               ELSE [s EXCEPT !.regs[e.ref].poc = TRUE]

Register(s, e) ==
    LET rc == Entry(s.regs, e.ref)
        mine == rc # None => rc.who = e.by /\ rc.poc
    IN  CASE rc = None \/ ~mine -> Grave(s, e, "register-invalid")
          [] rc # None /\ mine /\ e.num < s.params.stake -> Grave(s, e, "stake-insufficient")
          [] OTHER -> WithEditor([s EXCEPT !.regs[e.ref].stake = TRUE, !.regs[e.ref].regH = e.h,
                                           !.regs[e.ref].regTx = e.tx, !.regs[e.ref].regPin = e.pin],
                                 e.by, [EditorOf(s, e.by) EXCEPT !.pending = e.h])

\* The register an endorsement means: the one it names, else the earliest.
Endorsed(s, e) ==
    LET staked == {rc \in Range(s.regs) : rc.who = e.who /\ rc.stake}
        Earlier(x, y) == \/ x.regH < y.regH
                         \/ x.regH = y.regH /\ x.regTx < y.regTx
                         \/ x.regH = y.regH /\ x.regTx = y.regTx /\ x.regPin < y.regPin
        named == {rc \in staked : rc.regPin = e.aux}
    IN  CASE named # {} -> CHOOSE rc \in named : TRUE
          [] named = {} /\ staked # {} ->
                CHOOSE rc \in staked : \A other \in staked : ~Earlier(other, rc)
          [] OTHER -> None

Endorse(s, e) ==
    LET rc == Endorsed(s, e)
        ed == EditorOf(s, e.who)
        backers == ed.endorsed \cup {e.by}
        needed == IF e.h < s.bootEnd THEN 4 ELSE 2
        enough == Cardinality(backers) >= needed /\ ed.reg = NotYet
    IN  CASE TierOf(s, e.by, e.h) # "T2" -> Grave(s, e, "endorser-not-t2")
          [] TierOf(s, e.by, e.h) = "T2" /\ rc = None -> Grave(s, e, "endorse-no-register")
          [] OTHER ->
               IF e.by = e.who THEN Grave(s, e, "self-endorse")
               ELSE IF e.by \in ed.endorsed THEN Grave(s, e, "duplicate-endorse")
               ELSE WithEditor(s, e.who, [ed EXCEPT !.endorsed = backers,
                                                    !.reg = IF enough THEN rc.regH ELSE @])

\* suspend and revoke carry out a ruling.
CarryOut(s, e) ==
    LET p == Entry(s.props, e.ref)
        ruled == p # None => p.state = "effective"
        days == s.params.suspendDays
        ed == EditorOf(s, e.who)
    IN  IF p = None \/ ~ruled \/ TierOf(s, e.by, e.h) # "T2"
        THEN Grave(s, e, IF e.op = "revoke" THEN "revoke-unauthorized"
                         ELSE "suspend-unauthorized")
        ELSE WithEditor(s, e.who, IF e.op = "revoke" THEN [ed EXCEPT !.revoked = TRUE]
                                  ELSE [ed EXCEPT !.until = e.h + days * BlocksPerDay])

\* applyEditor: an applicant is listed whatever comes of it.
ApplyEditor(state, e) ==
    LET s == WithEditor(state, e.who, EditorOf(state, e.who))
    IN  CASE e.op = "challenge" -> EditorChallenge(s, e)
          [] e.op = "poc-response" -> PocResponse(s, e)
          [] e.op = "register" -> Register(s, e)
          [] e.op = "endorse" -> Endorse(s, e)
          [] e.op \in {"suspend", "revoke"} -> CarryOut(s, e)
          [] OTHER -> Grave(s, e, "editor-action-unknown")

-----------------------------------------------------------------------------
(* Reviews and challenges *)

\* entryKeyOfRev: the key a revision was written under, if that still has it.
EntryKeyOfRev(s, rev) ==
    LET holders == {k \in DOMAIN s.entries : rev \in DOMAIN RecordAt(s, k).versions}
        written == IF holders = {} THEN NoEntry
                   ELSE RecordAt(s, Min(holders)).versions[rev].entry
    IN  CASE holders = {} -> NoEntry
          [] holders # {} /\ written \in holders -> written
          [] OTHER -> Min(holders)

AuthorOf(s, rev) == RecordAt(s, EntryKeyOfRev(s, rev)).versions[rev].by

\* applyReview: also by those who are not yet editors.
ApplyReview(s, e) ==
    CASE EntryKeyOfRev(s, e.goal) = NoEntry -> Grave(s, e, "review-target-unresolvable")
      [] EntryKeyOfRev(s, e.goal) # NoEntry /\ AuthorOf(s, e.goal) = e.by ->
            Grave(s, e, "self-review")
      [] OTHER -> [s EXCEPT !.reviews = @ \cup {[pin |-> e.pin, by |-> e.by, rev |-> e.goal]}]

\* applyChallenge.
ApplyChallenge(s, e) ==
    LET key == EntryKeyOfRev(s, e.goal)
    IN  CASE key = NoEntry -> Grave(s, e, "challenge-target-unresolvable")
          [] key # NoEntry /\ ~IsActive(s, e.by, e.h) -> Grave(s, e, "unregistered")
          [] OTHER ->
               IF AuthorOf(s, e.goal) = e.by THEN Grave(s, e, "self-challenge")
               ELSE WithRecord([s EXCEPT !.challenges =
                                  With(@, e.pin, [rev |-> e.goal, by |-> e.by, entry |-> key])],
                               key, [RecordAt(s, key) EXCEPT !.disputed = @ \cup {e.goal}])

-----------------------------------------------------------------------------
(* Rulings *)

\* What the parameters of each outcome must have.
LegalParams(r, e) ==
    CASE e.outcome = "revert-to" -> e.goal \in DOMAIN r.versions
      [] e.outcome = "transfer-slug" -> e.entry # NoEntry /\ e.to # NoEntry
      [] e.outcome \in DOMAIN Reputation -> e.who # 0
      [] e.outcome \in {"protect", "unprotect"} -> e.ok
      [] OTHER -> e.outcome \in {"dismiss", "unfreeze"}

\* A proposal on a frozen entry names the revision it was frozen at, any
\* other none.
Propose(s, e) ==
    LET c == s.challenges[e.ref]
        r == RecordAt(s, c.entry)
        expected == IF r.status = "frozen" THEN r.base ELSE NoRev
    IN  CASE ~IsActive(s, e.by, e.h) -> Grave(s, e, "unregistered")
          [] IsActive(s, e.by, e.h) /\ e.ref \notin DOMAIN s.challenges ->
                Grave(s, e, "ruling-challenge-missing")
          [] OTHER ->
               IF e.aux # e.ref THEN Grave(s, e, "ruling-seed-mismatch")
               ELSE IF e.base # expected THEN Grave(s, e, "baseline-rev")
               ELSE IF ~LegalParams(r, e) THEN Grave(s, e, "ruling-params-missing")
               ELSE [s EXCEPT !.props = With(@, e.pin,
                       [challenge |-> e.ref, outcome |-> e.outcome, by |-> e.by, h |-> e.h,
                        expiry |-> e.h + s.params.voteHours * BlocksPerHour,
                        arbiters |-> Drawn(s, e.ref, e.h), approves |-> {}, voters |-> {},
                        state |-> "open", entry |-> c.entry, base |-> e.base,
                        goal |-> e.goal, from |-> e.entry, to |-> e.to, who |-> e.who])]

\* The first vote of each stands; only approvals of drawn arbiters count.
Vote(s, e) ==
    LET p == s.props[e.ref]
        approves == IF e.ok THEN p.approves \cup ({e.by} \cap p.arbiters) ELSE p.approves
        voted == [s EXCEPT !.props[e.ref].voters = @ \cup {e.by},
                           !.props[e.ref].approves = approves]
    IN  IF e.ref \notin DOMAIN s.props THEN Grave(s, e, "vote-on-closed-proposal")
        ELSE IF p.state # "open" \/ e.h > p.expiry THEN Grave(s, e, "vote-on-closed-proposal")
        ELSE IF e.by \in p.voters THEN Grave(s, e, "duplicate-vote")
        ELSE IF approves # p.approves /\ Cardinality(approves) >= s.params.quorum
        THEN ApplyOutcome(voted, e.ref) ELSE voted

\* applyRuling.
ApplyRuling(s, e) ==
    CASE e.op = "proposal" -> Propose(s, e)
      [] e.op = "vote" -> Vote(s, e)
      [] OTHER -> Grave(s, e, "ruling-action-unknown")

-----------------------------------------------------------------------------
(* The rules themselves *)

\* applyParamProposal: two thirds of the pool, and one more.
ParamVote(s, e) ==
    LET approves == s.votes[e.ref].approves
                    \cup (IF e.ok /\ TierOf(s, e.by, e.h) = "T2" THEN {e.by} ELSE {})
        needed == (s.params.poolK * 2) \div 3 + 1
    IN  [s EXCEPT !.votes[e.ref] =
           [approves |-> approves,
            state |-> IF Cardinality(approves) >= needed THEN "effective" ELSE "open"]]

ApplyParamProposal(s, e) ==
    CASE e.op = "proposal" ->
            IF ~IsActive(s, e.by, e.h) THEN Grave(s, e, "unregistered")
            ELSE [s EXCEPT !.votes = With(@, e.pin, [state |-> "open", approves |-> {}])]
      [] e.op = "vote" ->
            IF \E pin \in DOMAIN s.votes : pin = e.ref /\ s.votes[pin].state = "open"
            THEN ParamVote(s, e) ELSE Grave(s, e, "param-vote-on-closed")
      [] OTHER -> Grave(s, e, "param-proposal-kind-unknown")

Genesis(s, e) ==
    LET founder == [NewEditor EXCEPT !.founder = TRUE, !.reg = e.h]
    IN  [s EXCEPT !.params = e.params, !.genesis = e.h, !.founders = e.founders,
                  !.bootEnd = e.h + e.params.bootDays * BlocksPerDay,
                  !.eds = Over([id \in e.founders |-> founder], @)]

ApplyConstitution(s, e) ==
    CASE e.op = "genesis" -> IF s.params # None THEN Grave(s, e, "duplicate-genesis")
                             ELSE Genesis(s, e)
      [] OTHER ->
           IF \E pin \in DOMAIN s.votes : pin = e.ref /\ s.votes[pin].state = "effective"
           THEN [s EXCEPT !.params = Over(e.params, @)]
           ELSE Grave(s, e, "constitution-without-effective-proposal")

-----------------------------------------------------------------------------
(* Revisions *)

\* Counters of the day: of an editor, and of an editor and a record.
DayOf(s, h) == (h - s.genesis) \div BlocksPerDay

Counted(f, k) == IF k \in DOMAIN f THEN f[k] ELSE 0

\* Mutant: the counters are compared before this revision is counted.
RateGate_OneMore(s, day, key) ==
    CASE Counted(s.day, day) > s.params.rateG -> "rate-global"
      [] OTHER -> IF Counted(s.slugDay, <<day, key>>) > s.params.rateS THEN "rate-slug"
                  ELSE "admitted"

RateGate(s, day, key) ==
    CASE Counted(s.day, day) + 1 > s.params.rateG -> "rate-global"
      [] OTHER -> IF Counted(s.slugDay, <<day, key>>) + 1 > s.params.rateS THEN "rate-slug"
                  ELSE "admitted"

\* checkRevGates, the first that is shut.
RevGates(s, e, r) ==
    LET tier == TierOf(s, e.by, e.h)
        trusted == tier = "T2" /\ EditorOf(s, e.by).rep >= s.params.theta
    IN  CASE tier = "none" -> "unregistered"
          [] tier = "T0" -> "t0-no-rev"
          [] OTHER ->
               IF r.status = "frozen" /\ e.by \notin r.arbiters THEN "frozen-unauthorized"
               ELSE IF r.status = "protected" /\ ~trusted THEN "protected-unauthorized"
               ELSE RateGate(s, <<e.by, DayOf(s, e.h)>>, r.key)

\* countRev.
CountRev(s, e, r) ==
    LET day == <<e.by, DayOf(s, e.h)>>
    IN  [s EXCEPT !.day = With(@, day, Counted(@, day) + 1),
                  !.slugDay = With(@, <<day, r.key>>, Counted(@, <<day, r.key>>) + 1),
                  !.eds[e.by].revs = @ + 1]

\* A new head of the record under e.entry, and what else the pin changes of it.
Headed(s, e, r, rev) ==
    CountRev(WithRecord(s, e.entry, [r EXCEPT !.head = rev, !.history = Append(@, rev)]), e, r)

Version(e, hash) == [hash |-> hash, by |-> e.by, entry |-> e.entry]

Create(s, e, r) ==
    IF r.head # NoRev THEN Grave(s, e, "duplicate-create")
    ELSE Headed(s, e, [r EXCEPT !.versions = With(@, Rev(e.pin), Version(e, e.hash))], Rev(e.pin))

\* An edit that was based on something else than the head is contested.
Edit(s, e, r) ==
    IF r.head = NoRev THEN Grave(s, e, "edit-without-entry")
    ELSE Headed(s, e, [r EXCEPT !.versions = With(@, Rev(e.pin), Version(e, e.hash)),
                                !.contests = IF e.based \notin {NoRev, r.head}
                                             THEN @ \cup {e.pin} ELSE @], Rev(e.pin))

Redirect(s, e, r) ==
    CASE r.head = NoRev -> Grave(s, e, "redirect-without-entry")
      [] r.head # NoRev /\ (IF e.to \in DOMAIN s.entries THEN RecordAt(s, e.to).head ELSE NoRev)
                           = NoRev -> Grave(s, e, "redirect-target-missing")
      [] OTHER -> Headed(s, e, [r EXCEPT !.redirect = e.to], Rev(e.pin))

\* revertWeightFor: the first fix of vandalism by an editor weighs half.
WeighsHalf(e, r) == e.vf /\ ~\E w \in r.weights : w.by = e.by /\ w.vf

\* The reverts in the window, this one among them.
Weights(s, e, r) ==
    {w \in r.weights : w.h > e.h - s.params.warHours * BlocksPerHour}
    \cup {[pin |-> e.pin, h |-> e.h, by |-> e.by, half |-> WeighsHalf(e, r), vf |-> e.vf]}

\* Too many reverts freeze the record: only arbiters drawn now may write.
Fought(s, e, r, weights) ==
    LET halves == {w \in weights : w.half}
        war == 2 * Cardinality(weights) - Cardinality(halves) >= 2 * s.params.warT
        kept == [r EXCEPT !.weights = weights]
    IN  IF r.status = "normal" /\ war
        THEN [kept EXCEPT !.status = "frozen", !.frozenAt = e.pin, !.base = r.head,
                          !.arbiters = Drawn(s, e.pin, e.h)]
        ELSE kept

\* The editor's revision is counted before the arbiters are drawn.
Reverted(s, e, r) ==
    WithRecord(s, e.entry,
      [Fought(s, e, r, Weights(s, e, r)) EXCEPT
         !.head = Equivalent(e.pin), !.history = Append(@, Equivalent(e.pin)),
         !.versions = With(@, Equivalent(e.pin), Version(e, r.versions[e.goal].hash))])

Revert(s, e, r) ==
    CASE r.head = NoRev -> Grave(s, e, "revert-without-entry")
      [] r.head # NoRev /\ e.goal \notin DOMAIN r.versions ->
            Grave(s, e, IF \E k \in DOMAIN s.entries : e.goal \in DOMAIN RecordAt(s, k).versions
                        THEN "revert-entry-mismatch" ELSE "revert-target-unresolvable")
      [] OTHER ->
           IF r.versions[e.goal].entry # e.entry THEN Grave(s, e, "revert-entry-mismatch")
           ELSE IF r.versions[e.goal].hash # e.hash THEN Grave(s, e, "revert-hash-mismatch")
           ELSE Reverted(CountRev(s, e, r), e, r)

Written(s, e, r) ==
    CASE e.op = "create" -> Create(s, e, r)
      [] e.op = "edit" -> Edit(s, e, r)
      [] e.op = "revert" -> Revert(s, e, r)
      [] e.op = "redirect" -> Redirect(s, e, r)
      [] OTHER -> Grave(s, e, "rev-type-unknown")

Gated(s, e, r) ==
    IF RevGates(s, e, r) # "admitted" THEN Grave(s, e, RevGates(s, e, r)) ELSE Written(s, e, r)

\* applyRev: the entry exists from the first attempt on.
ApplyRev(s, e) == Gated(Opened(s, e.entry), e, RecordAt(Opened(s, e.entry), e.entry))

-----------------------------------------------------------------------------
(* The replay *)

Dispatch(s, e) ==
    CASE e.path = "constitution" -> ApplyConstitution(s, e)
      [] e.path # "constitution" /\ s.params = None -> Grave(s, e, "no-genesis")
      [] OTHER ->
           CASE e.path = "editor" -> ApplyEditor(s, e)
             [] e.path = "review" -> ApplyReview(s, e)
             [] e.path = "challenge" -> ApplyChallenge(s, e)
             [] e.path = "ruling" -> ApplyRuling(s, e)
             [] e.path = "param-proposal" -> ApplyParamProposal(s, e)
             [] e.path = "rev" -> ApplyRev(s, e)
             [] OTHER -> Grave(s, e, "unknown-path")

\* apply.
Apply(s, e) == Dispatch(CloseExpired(s, e.h), e)

ChainOrder(e, f) == e.h < f.h \/ (e.h = f.h /\ e.tx < f.tx)

\* plateOf: where a key sends its reader.
PlateOf(s, key) == IF key \in DOMAIN s.alias THEN s.alias[key] ELSE RecordAt(s, key).redirect

EditorView(s, id, h) ==
    LET ed == s.eds[id]
    IN  [status |-> CASE ed.reg # NotYet -> "active"
                      [] ed.reg = NotYet /\ ed.pending # 0 -> "pending"
                      [] OTHER -> "none",
         tier |-> TierOf(s, id, h), rep |-> ed.rep, revs |-> ed.revs]

\* What Replay returns of a state; an entry nothing was written to is left out.
View(s, h) ==
    [entries |-> [key \in {k \in DOMAIN s.entries : RecordAt(s, k).history # <<>>} |->
                    [record |-> RecordAt(s, key), plate |-> PlateOf(s, key)]],
     editors |-> [id \in DOMAIN s.eds |-> EditorView(s, id, h)],
     props |-> s.props, grave |-> s.grave, params |-> s.params]

\* Replay of confirmed pins in whatever order they were pulled.
Replay(pins) ==
    LET ordered == Sorted(pins, ChainOrder)
        h == IF ordered = <<>> THEN 0 ELSE Last(ordered).h
    IN  View(CloseExpired(FoldLeft(Apply, Start, ordered), h + 1), h)

=============================================================================
