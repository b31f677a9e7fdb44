-------------------------- MODULE MCAgentpediaSync --------------------------
(* Seven stories of an encyclopedia of three or four founders and an          *)
(* applicant. A pin is its place in the story; the slack is spent on pins   *)
(* that come late, early or never.                                          *)
EXTENDS AgentpediaSync

MCParams ==
    [t0Hours |-> 1, t1Revs |-> 1, t2Days |-> 1, t2Revs |-> 1, bootDays |-> 1, stake |-> 1,
     voteHours |-> 1, drawN |-> 2, quorum |-> 2, poolK |-> 2, theta |-> 1, rateG |-> 4,
     rateS |-> 3, warHours |-> 1, warT |-> 2, suspendDays |-> 1]

Blank ==
    [h |-> 0, tx |-> 0, by |-> 1, wait |-> 0, ref |-> 0, aux |-> 0, entry |-> 0, who |-> 0, outcome |-> "",
     goal |-> NoRev, base |-> NoRev, based |-> NoRev, to |-> 0, ok |-> FALSE, vf |-> FALSE,
     hash |-> 0, num |-> 0, params |-> None, founders |-> {}]

Write(path, op, by, fields) == fields @@ [path |-> path, op |-> op, by |-> by] @@ Blank

Found(n) == Write("constitution", "genesis", 1, [params |-> MCParams, founders |-> 1..n])
Creates(by, entry) == Write("rev", "create", by, [entry |-> entry, hash |-> 2])
Edits(by, entry, hash) == Write("rev", "edit", by, [entry |-> entry, hash |-> hash, wait |-> 1])
Reverts(by, entry, goal, hash) ==
    Write("rev", "revert", by, [entry |-> entry, goal |-> goal, hash |-> hash])
Fixes(by, entry, goal, hash) ==
    Write("rev", "revert", by, [entry |-> entry, goal |-> goal, hash |-> hash, vf |-> TRUE])
Redirects(by, entry, to) == Write("rev", "redirect", by, [entry |-> entry, to |-> to])
Applies(op, by, ref, aux) ==
    Write("editor", op, by, [who |-> 5, ref |-> ref, aux |-> aux, num |-> 1])
Invites(by, who, wait) == Write("editor", "challenge", by, [who |-> who, wait |-> wait])
Endorses(by, aux) == Write("editor", "endorse", by, [who |-> 5, aux |-> aux])
CarriesOut(op, by, ref, who) == Write("editor", op, by, [ref |-> ref, who |-> who])
Reviews(by, goal) == Write("review", "review", by, [goal |-> goal])
Challenges(by, goal) == Write("challenge", "challenge", by, [goal |-> goal, wait |-> 1])
Proposes(by, ref, outcome, fields) ==
    Write("ruling", "proposal", by, fields @@ [ref |-> ref, aux |-> ref, outcome |-> outcome])
Votes(by, ref, ok) == Write("ruling", "vote", by, [ref |-> ref, ok |-> ok, wait |-> 1])
Asks(op, by, ref) == Write("param-proposal", op, by, [ref |-> ref, ok |-> TRUE])
Amends(ref) == Write("constitution", "amend", 3, [ref |-> ref, params |-> [t1Revs |-> 0]])

Numbered(pins) == [i \in DOMAIN pins |-> [pin |-> i] @@ pins[i]]

Story(pins, sweeps, fails, skips, sightings, slack) ==
    [pins |-> Numbered(pins), sweeps |-> sweeps, fails |-> fails, skips |-> skips,
     sightings |-> sightings, slack |-> slack]

\* An applicant in the bootstrap window, and one after it.
Joining ==
    <<Found(4), Creates(1, 1), Invites(1, 5, 0), Reviews(5, Rev(2)), Applies("poc-response", 5, 3, 4),
      Applies("register", 5, 3, 0), Endorses(1, 6), Endorses(2, 6), Endorses(3, 6), Endorses(4, 6),
      Edits(5, 1, 3), Edits(5, 1, 4)>>

JoiningLater ==
    <<Found(3), Creates(1, 1), Edits(2, 1, 3), Invites(1, 5, 150), Reviews(5, Rev(2)),
      Applies("poc-response", 5, 4, 5), Applies("register", 5, 4, 0), Endorses(1, 0),
      Endorses(5, 0), Endorses(2, 0), Edits(5, 1, 4)>>

\* A war of reverts freezes an entry, and a ruling ends it.
War ==
    <<Found(3), Creates(1, 1), Edits(2, 1, 3), Reverts(1, 1, Rev(2), 2), Fixes(2, 1, Rev(3), 3),
      Fixes(2, 1, Rev(3), 3), Edits(3, 1, 4), Challenges(3, Rev(2)),
      Proposes(2, 8, "revert-to", [goal |-> Rev(3), base |-> Equivalent(5)]),
      Votes(1, 9, TRUE), Votes(2, 9, TRUE), Votes(3, 9, TRUE),
      Proposes(3, 8, "unfreeze", [base |-> Equivalent(5)]), Votes(3, 13, TRUE), Votes(1, 13, TRUE),
      Edits(1, 1, 5), Edits(1, 1, 6)>>

\* An editor is banned and another suspended, and the rules are amended.
Sanctions ==
    <<Found(3), Creates(1, 1), Edits(2, 1, 3), [Edits(3, 1, 4) EXCEPT !.based = Rev(2)],
      Challenges(2, Rev(2)), Proposes(2, 5, "ban-editor", [who |-> 1]), Votes(2, 6, TRUE),
      Votes(3, 6, TRUE), Votes(1, 6, FALSE), CarriesOut("revoke", 3, 6, 1), Edits(1, 1, 3),
      Asks("proposal", 3, 0), Asks("vote", 2, 12), Asks("vote", 3, 12), Amends(12),
      CarriesOut("suspend", 3, 6, 2), Edits(2, 1, 4), Edits(3, 1, 5)>>

\* A slug moves, an entry is protected, and a challenge is dismissed.
Moves ==
    <<Found(3), Creates(1, 1), Creates(2, 2), Redirects(2, 2, 1), Challenges(3, Rev(2)),
      Proposes(3, 5, "transfer-slug", [entry |-> 1, to |-> 3]), Votes(1, 6, TRUE), Votes(2, 6, TRUE),
      Votes(3, 6, TRUE), Edits(1, 3, 4), Reverts(1, 3, Rev(2), 2),
      Proposes(3, 5, "protect", [ok |-> TRUE]), Proposes(1, 5, "confirm-goodfaith", [who |-> 3]),
      Votes(2, 12, TRUE), Votes(3, 12, TRUE), Votes(1, 12, TRUE), Edits(3, 1, 5),
      Proposes(2, 5, "dismiss", [ok |-> TRUE]), Votes(2, 18, TRUE), Votes(3, 18, TRUE)>>

\* What is refused whatever comes before it.
Refused ==
    <<Edits(1, 1, 3), Found(3), Found(2), Creates(1, 1), Creates(2, 1), Reviews(1, Rev(4)),
      Challenges(1, Rev(4)), Challenges(2, Rev(4)), Reverts(2, 1, Rev(4), 7),
      Proposes(2, 8, "warn-editor", <<>>), Proposes(2, 8, "dismiss", [aux |-> 1]),
      Proposes(2, 8, "dismiss", <<>>), Votes(2, 12, TRUE), Votes(2, 12, TRUE),
      Invites(1, 5, 0), Reviews(5, Rev(4)), Applies("poc-response", 5, 15, 16),
      Write("editor", "register", 5, [ref |-> 15]), Applies("register", 5, 15, 0),
      Endorses(1, 19), Endorses(1, 19), Edits(1, 2, 3), Creates(1, 2), Edits(1, 2, 3), Edits(1, 2, 4),
      Creates(1, 3), Edits(1, 2, 4)>>

\* Pulled page by page while it is mined.
Pulled == <<Found(3), Creates(1, 1), Edits(2, 1, 3), Edits(1, 1, 4), Reviews(3, Rev(2)), Edits(2, 1, 5)>>

MCStories ==
    {Story(pins, 0, 0, 0, 0, 2) : pins \in {Joining, JoiningLater, War, Sanctions, Moves}}
    \cup {Story(Refused, 0, 0, 0, 0, 1)}
    \cup {Story(Pulled, 3, 1, 1, 2, 0)}

\* These stories are such as the theorems about rulings and revisions ask for.
ASSUME MCSteady == SteadyRules

ASSUME MCFirm == FirmRules

=============================================================================
