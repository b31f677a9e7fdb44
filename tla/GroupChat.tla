------------------------------ MODULE GroupChat ------------------------------
(***************************************************************************)
(* Group chat (internal/aggregator/groupchat): communities, groups with    *)
(* their members and roles, channels and messages.  Block pins and mempool *)
(* pins go through the same handlers, which take no lock; here each is one *)
(* step.  The stored data, db, has a component per key family:             *)
(*   community  community:  pin -> community                               *)
(*   group      group:      group -> group                                 *)
(*   member     member:     <<group, metaid>> -> member                    *)
(*   role       grouprole:  <<group, metaid>> -> role                      *)
(*   join       groupjoin:  <<identity, group, time, pin>> -> item         *)
(*   channel    channel:    <<group, channel>> -> channel                  *)
(*   chat       chat:       <<group, time, pin>> -> message                *)
(* A user has a metaid, a global id and an address; what the pin does not  *)
(* spell out is not known.  A name, a text or an icon is the pin that set  *)
(* it.  A transaction carries one message (its key is that of the          *)
(* transaction, not of the pin).                                           *)
(***************************************************************************)
EXTENDS Records

InitDb ==
    [community |-> <<>>, group |-> <<>>, member |-> <<>>, role |-> <<>>, join |-> <<>>,
     channel |-> <<>>, chat |-> <<>>]

\* The metaid of a pin, and every identity it names.
MetaId(p) == IF p.meta THEN <<"metaid", p.by>> ELSE <<"address", p.by>>

Names(p) ==
    {MetaId(p), <<"address", p.by>>} \cup (IF p.gid THEN {<<"globalid", p.by>>} ELSE {})

-----------------------------------------------------------------------------
(* Groups and their members *)

GetGroup(db, g) == Entry(db.group, g)

GetMember(db, g, who) == Entry(db.member, <<g, who>>)

IsUserInGroup(db, g, who) ==
    LET m == GetMember(db, g, who) IN m # None /\ ~m.removed

SaveMember(db, g, who, m) == [db EXCEPT !.member = With(@, <<g, who>>, m)]

NewMember(p) ==
    [kind |-> "member", meta |-> MetaId(p), names |-> Names(p), creator |-> FALSE,
     admin |-> FALSE, removed |-> FALSE, at |-> p.at]

GetRole(db, g, who) ==
    LET r == Entry(db.role, <<g, who>>)
    IN  IF r = None THEN [kind |-> "role", who |-> who, creator |-> FALSE, admin |-> FALSE,
                          blocked |-> FALSE, at |-> 0]
        ELSE r

SetRole(db, g, who, r) == [db EXCEPT !.role = With(@, <<g, who>>, r)]

\* SaveGroupMetaIdJoinItem: under each name of the user.
SaveJoinItem(db, g, p, type) ==
    LET keys == {<<n, g, p.at, p.id>> : n \in Names(p)}
        item == [type |-> type, pin |-> p.id, at |-> p.at, by |-> MetaId(p),
                 state |-> IF type = "leave" THEN -1 ELSE 1]
    IN  [db EXCEPT !.join = [k \in keys |-> item] @@ @]

CreateCommunity(db, p) ==
    [db EXCEPT !.community = With(@, p.id, [by |-> MetaId(p), at |-> p.at, members |-> 1])]

\* handleGroupCreate: the group, its creator as member and admin, the item.
CreateGroup(db, p) ==
    LET g == IF p.to = NoPin THEN p.id ELSE p.to
        who == MetaId(p)
        group == [kind |-> "group", id |-> g, pin |-> p.id, by |-> who, members |-> 1, at |-> p.at]
        creator == [NewMember(p) EXCEPT !.creator = TRUE, !.admin = TRUE]
        role == [kind |-> "role", who |-> who, creator |-> TRUE, admin |-> TRUE,
                 blocked |-> FALSE, at |-> p.at]
        d == SaveMember([db EXCEPT !.group = With(@, g, group)], g, who, creator)
    IN  SaveJoinItem(SetRole(d, g, who, role), g, p, "create")

\* One user of handleGroupAdmin and of handleGroupBlock.
SetAdmin(db, p, who) ==
    LET d == SetRole(db, p.to, who, [GetRole(db, p.to, who) EXCEPT !.admin = TRUE, !.at = p.at])
        m == GetMember(d, p.to, who)
    IN  IF m = None THEN d
        ELSE SaveMember(d, p.to, who, [m EXCEPT !.admin = TRUE, !.at = p.at])

SetBlocked(db, p, who) ==
    SetRole(db, p.to, who, [GetRole(db, p.to, who) EXCEPT !.blocked = TRUE, !.at = p.at])

AddToCount(db, g, n) ==
    IF GetGroup(db, g) = None \/ db.group[g].members + n < 0 THEN db
    ELSE [db EXCEPT !.group[g].members = @ + n]

\* handleGroupJoin: a state of 1 joins, any other leaves.
Join(db, p) ==
    AddToCount(SaveMember(SaveJoinItem(db, p.to, p, "join"), p.to, MetaId(p), NewMember(p)),
               p.to, 1)

Leave(db, p) ==
    LET d == SaveJoinItem(db, p.to, p, "leave")
        m == GetMember(d, p.to, MetaId(p))
    IN  AddToCount(IF m = None THEN d
                   ELSE SaveMember(d, p.to, MetaId(p), [m EXCEPT !.removed = TRUE, !.at = p.at]),
                   p.to, -1)

-----------------------------------------------------------------------------
(* Channels and messages *)

\* handleGroupChannel: the channel is named by the pin or is the pin.
SaveChannel(db, p) ==
    LET id == IF p.ref = NoPin THEN p.id ELSE p.ref
    IN  [db EXCEPT !.channel =
            With(@, <<p.to, id>>, [id |-> id, pin |-> p.id, by |-> MetaId(p), at |-> p.at])]

\* Newest first, as the keys of a group run backwards.
Later(k, j) == k[2] > j[2] \/ (k[2] = j[2] /\ k[3] > j[3])

\* collectGroupRootMessages (no channel) and collectChannelMessages.
ChatKeys(db, g, channel) ==
    {k \in DOMAIN db.chat : k[1] = g /\ db.chat[k].channel = channel}

\* Mutant: as many messages as there are is the next index.
NextChatIndex_Counts(db, g, channel) == Cardinality(ChatKeys(db, g, channel))

\* nextChatIndex.
NextChatIndex(db, g, channel) ==
    Max({-1} \cup {db.chat[k].index : k \in ChatKeys(db, g, channel)}) + 1

\* GetReplyInfo: the first message of the pin that a scan meets.
ReplyInfo(db, id) ==
    LET keys == {k \in DOMAIN db.chat : db.chat[k].pin = id}
    IN  IF id = NoPin \/ keys = {} THEN None
        ELSE db.chat[CHOOSE k \in keys : \A j \in keys : j = k \/ Later(j, k)]

\* handleGroupChat: who writes is made a member; the message replaces one of
\* the same time and transaction.
Chat(db, p) ==
    LET who == MetaId(p)
        d == IF IsUserInGroup(db, p.to, who) THEN db ELSE SaveMember(db, p.to, who, NewMember(p))
        answered == ReplyInfo(d, p.quote)
        msg == [kind |-> "message", pin |-> p.id, group |-> p.to, channel |-> p.ref, by |-> who,
                reply |-> p.quote, at |-> p.at, index |-> NextChatIndex(d, p.to, p.ref),
                answers |-> IF answered = None THEN who ELSE answered.by]
    IN  [d EXCEPT !.chat = With(@, <<p.to, p.at, p.id>>, msg)]

\* dispatchPin: all but a community and a new group must name their group.
ProcessPin(db, p) ==
    CASE p.kind = "community" -> CreateCommunity(db, p)
      [] p.kind = "group" -> CreateGroup(db, p)
      [] p.kind = "channel" /\ p.to # NoPin -> SaveChannel(db, p)
      [] p.kind = "admin" /\ p.to # NoPin ->
            FoldLeft(LAMBDA d, who : SetAdmin(d, p, who), db, p.users)
      [] p.kind = "block" /\ p.to # NoPin ->
            FoldLeft(LAMBDA d, who : SetBlocked(d, p, who), db, p.users)
      [] p.kind = "gchat" /\ p.to # NoPin -> Chat(db, p)
      [] p.kind = "gjoin" /\ p.to # NoPin -> IF p.val = 1 THEN Join(db, p) ELSE Leave(db, p)
      [] OTHER -> db

-----------------------------------------------------------------------------
(* What the endpoints serve *)

\* GroupMemberTargetIds: whom a message of the group is sent to.
Targets(db, g) == UNION {m.names : m \in {db.member[k] : k \in
                            {j \in DOMAIN db.member : j[1] = g /\ ~db.member[j].removed}}}

Matches(m, who) == who \in m.names

\* GetGroupList: the groups stored among those the user is a member of.
GroupList(db, who) ==
    {k[1] : k \in {j \in DOMAIN db.member : Matches(db.member[j], who) /\ ~db.member[j].removed}}
        \cap DOMAIN db.group

\* GetGroupMemberList: the roles of a member come from the role stored, if
\* there is one, and so does whether the member was removed.
MemberShown(db, g, who) ==
    LET m == db.member[g, who]
        r == GetRole(db, g, who)
    IN  IF <<g, who>> \in DOMAIN db.role
        THEN [meta |-> who, creator |-> r.creator, admin |-> r.admin, blocked |-> r.blocked,
              removed |-> FALSE]
        ELSE [meta |-> who, creator |-> m.creator, admin |-> m.admin, blocked |-> FALSE,
              removed |-> m.removed]

MemberList(db, g) == {MemberShown(db, k[1], k[2]) : k \in {j \in DOMAIN db.member : j[1] = g}}

\* GetGroupJoinControlList: the blocked, and those of them with a global id.
ControlList(db, g) ==
    LET blocked == {k[2] : k \in {j \in DOMAIN db.role : j[1] = g /\ db.role[j].blocked}}
        Global(who) == LET m == GetMember(db, g, who)
                       IN  IF m = None THEN {} ELSE {n \in m.names : n[1] = "globalid"}
    IN  [metaids |-> blocked, globalids |-> UNION {Global(who) : who \in blocked}]

\* paginateMessagesDesc over the messages before a time (0: all).
ChatPage(db, g, channel, before, offset, size) ==
    LET keys == {k \in ChatKeys(db, g, channel) : before = 0 \/ k[2] < before}
    IN  Page(Sorted(keys, Later), offset, size)

\* sliceMessagesByIndex.
ChatByIndex(db, g, channel, start, size) ==
    LET Ahead(j, k) == LET a == db.chat[j] b == db.chat[k]
                       IN  a.index < b.index \/ (a.index = b.index /\ Later(k, j))
        keys == {k \in ChatKeys(db, g, channel) : db.chat[k].index >= start}
        items == Page(Sorted(keys, Ahead), 0, size).items
    IN  [items |-> items, last |-> Max({0} \cup {db.chat[k].index : k \in Range(items)})]

\* GetGroupChannelList: the channels stored and those messages name, each
\* with its newest message.
ChannelList(db, g) ==
    LET stored == {k[2] : k \in {j \in DOMAIN db.channel : j[1] = g}}
        named == {db.chat[k].channel : k \in {j \in DOMAIN db.chat : j[1] = g}} \ {NoPin}
        Newest(c) == LET keys == ChatKeys(db, g, c)
                     IN  IF keys = {} THEN NoPin
                         ELSE (CHOOSE k \in keys : \A j \in keys : j = k \/ Later(k, j))[3]
    IN  {[id |-> c, newest |-> Newest(c)] : c \in stored \cup named}

\* GetUserLatestChatInfoList, but for the private chats it adds.
LatestChats(db, who) ==
    LET Latest(g) == LET page == ChatPage(db, g, NoPin, 0, 0, 1).items
                     IN  IF page = <<>> THEN NoPin ELSE page[1][3]
    IN  {[group |-> g, latest |-> Latest(g)] : g \in GroupList(db, who)}

\* collectGroupMetaIdJoinItems: under every name of the user in the group.
JoinList(db, g, who) ==
    LET members == {db.member[k] : k \in {j \in DOMAIN db.member : j[1] = g}}
        names == {who} \cup UNION {m.names : m \in {n \in members : Matches(n, who)}}
    IN  {db.join[k] : k \in {j \in DOMAIN db.join : j[1] \in names /\ j[2] = g}}

\* GroupHistoryForIdentity.
History(db, names) ==
    LET Items(g) == {db.join[k] : k \in {j \in DOMAIN db.join : j[1] \in names /\ j[2] = g}}
        OfType(g, type) == {i \in Items(g) : i.type = type}
        First(items) == CHOOSE i \in items : \A j \in items : i.at <= j.at
        Newest(items) == CHOOSE i \in items : \A j \in items : i.at >= j.at
        Chosen(g) == CASE OfType(g, "create") # {} -> First(OfType(g, "create"))
                       [] OfType(g, "create") = {} /\ OfType(g, "join") # {} ->
                             First(OfType(g, "join"))
                       [] OTHER -> Newest(Items(g))
        Members(g) == {db.member[k] : k \in {j \in DOMAIN db.member :
                          j[1] = g /\ db.member[j].names \cap names # {}}}
        Still(g) == IF Members(g) # {} THEN ~(CHOOSE m \in Members(g) : TRUE).removed
                    ELSE Newest(Items(g)).state = 1
    IN  {[group |-> g, as |-> IF OfType(g, "create") # {} THEN "chair" ELSE "member",
          pin |-> Chosen(g).pin, still |-> Still(g)] :
            g \in {k[2] : k \in {j \in DOMAIN db.join : j[1] \in names}}}

-----------------------------------------------------------------------------
(* What the stored data owe their readers *)

Rooms(db) == {<<k[1], db.chat[k].channel>> : k \in DOMAIN db.chat}

\* What a reader collects who follows the offsets of a room, or its indexes.
ByOffset(db, room, size) ==
    LET n == Cardinality(ChatKeys(db, room[1], room[2]))
    IN  FlattenSeq([i \in 1..(n + 1) |->
            ChatPage(db, room[1], room[2], 0, (i - 1) * size, size).items])

ByIndex(db, room, size) ==
    LET More(s) == LET page == ChatByIndex(db, room[1], room[2], s.start, size)
                   IN  [items |-> s.items \o page.items, start |-> page.last + 1,
                        more |-> page.items # <<>>]
    IN  FoldLeft(LAMBDA s, i : IF s.more THEN More(s) ELSE s,
                 [items |-> <<>>, start |-> 0, more |-> TRUE],
                 [i \in 1..(Cardinality(ChatKeys(db, room[1], room[2])) + 1) |-> i]).items

\* Read to the end by offsets or from index to index, a room shows each of
\* its messages once; a channel is listed once, with its newest message; and
\* what a user reads of the groups joined, of the chats and of the history is
\* one membership, the one messages are sent by.
ServedOnce(db) ==
    LET everyone == UNION {m.names : m \in Range(db.member)}
        groups == DOMAIN db.group
    IN  /\ \A room \in Rooms(db), size \in 1..2 :
              /\ Lists(ByOffset(db, room, size), ChatKeys(db, room[1], room[2]))
              /\ Lists(ByIndex(db, room, size), ChatKeys(db, room[1], room[2]))
        /\ \A g \in groups :
              \A c \in ChannelList(db, g) :
                  c.newest # NoPin =>
                      c.newest = ChatPage(db, g, c.id, 0, 0, 1).items[1][3]
        /\ \A who \in everyone :
              LET mine == GroupList(db, who)
              IN  /\ mine = {g \in groups : who \in Targets(db, g)}
                  /\ {c.group : c \in LatestChats(db, who)} = mine
                  /\ \A h \in History(db, {who}) :
                        h.group \in groups => (h.still <=> h.group \in mine)

\* What readers come to see once every pin is in a block: all but the counts
\* of members, the indexes of messages and the times of what the mempool
\* brought first; a message seen in the mempool is listed at both its times.
Agrees(db, ref) ==
    LET Members(d) == {<<k, d.member[k].removed, d.member[k].names,
                         MemberShown(d, k[1], k[2])>> : k \in DOMAIN d.member}
        Groups(d) == {<<g, d.group[g].pin, d.group[g].by, d.group[g].at>> : g \in DOMAIN d.group}
        Items(d) == {<<k[1], k[2], k[4], d.join[k].type>> : k \in DOMAIN d.join}
        Pins(d) == {d.chat[k].pin : k \in DOMAIN d.chat}
    IN  /\ db.community = ref.community /\ db.channel = ref.channel /\ db.role = ref.role
        /\ Groups(db) = Groups(ref) /\ Items(db) = Items(ref) /\ Pins(db) = Pins(ref)
        /\ {m[1] : m \in Members(db)} = {m[1] : m \in Members(ref)}
        /\ {<<m[1], m[2]>> : m \in Members(db)} = {<<m[1], m[2]>> : m \in Members(ref)}
        /\ DOMAIN ref.chat \subseteq DOMAIN db.chat

=============================================================================
