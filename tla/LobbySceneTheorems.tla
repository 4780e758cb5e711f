-------------------------- MODULE LobbySceneTheorems --------------------------
(***************************************************************************)
(* Proofs about the lobby scene, for any number of players, any palette    *)
(* and any two games.                                                      *)
(***************************************************************************)
EXTENDS LobbyScene, FiniteSetTheorems, TLAPS
-----------------------------------------------------------------------------
(* The inductive invariant                                                 *)

\* A colour in data is the one that all, the master's data, has.
Shown(data, all) ==
    \A p \in DOMAIN data : data[p].color # NoColor =>
        p \in DOMAIN all /\ data[p].color = all[p].color
MessageShown(msg, all) == msg.type = "updatePlayerData" => Shown(msg.data, all)
EventShown(event, all) == event.type = "message" => MessageShown(event.msg, all)

\* The colours of the master are distinct and not in what is left of the palette.
Handed(all, left) ==
    \A p \in DOMAIN all : all[p].color # NoColor =>
        /\ all[p].color > left
        /\ \A q \in DOMAIN all \ {p} : all[q].color # all[p].color

ColorsOK ==
    LET all == playerData[Master]
    IN  /\ Handed(all, colorsLeft)
        /\ \A c \in Players :
            /\ Shown(playerData[c], all)
            /\ \A k \in DOMAIN up[c] : MessageShown(up[c][k], all)
            /\ \A k \in DOMAIN inbox[c] : EventShown(inbox[c][k], all)

IsUpdate(event) == event.type = "lobbyUpdated"
\* A client that has ps for net.players hears of p in the first k events.
HearsOf(p, ps, es, k) ==
    p \in ps \/ \E j \in 1 .. k : IsUpdate(es[j]) /\ p \in es[j].players

\* The master learns of a player before it hears from him: it has no data of
\* players it does not know.  The lobby has n players.
InOrder(ps, es, n) ==
    /\ ps \subseteq 0 .. n - 1
    /\ \A k \in DOMAIN es :
        IF IsUpdate(es[k])
        THEN /\ ps \subseteq es[k].players
             /\ es[k].players \subseteq 0 .. n - 1
             /\ \A j \in 1 .. k - 1 :
                    IsUpdate(es[j]) => es[j].players \subseteq es[k].players
        ELSE HearsOf(es[k].from, ps, es, k - 1)
    /\ \A p \in 0 .. n - 1 : HearsOf(p, ps, es, Len(es))
VotersOK ==
    /\ \A c \in Players : up[c] # <<>> => c < joined
    /\ Master \notin stopped =>
        /\ DOMAIN playerData[Master] \subseteq netPlayers[Master]
        /\ InOrder(netPlayers[Master], inbox[Master], joined)

SceneInv == TypeOK /\ ColorsOK /\ VotersOK
-----------------------------------------------------------------------------
LEMMA MasterPlays == Master \in Players /\ NoColor \in Colors
BY SceneAssumption DEF Master, Players, Colors

LEMMA ChoicesNat == Choices = {0, 1, 2} /\ DOMAIN Games = {1, 2}
BY SceneAssumption DEF Choices

LEMMA ColorsNat == Colors \subseteq Nat
BY SceneAssumption DEF Colors, NoColor

\* The palette has every colour below one it has.
LEMMA LowerColors ==
    ASSUME NEW c \in Colors, NEW d \in Nat, d <= c
    PROVE  d \in Colors
<1>1. c \in Nat
  BY ColorsNat
<1>2. CASE d = 0
  BY <1>2 DEF Colors, NoColor
<1>3. CASE d # 0
  <2>1. PICK n \in PaletteSizes : c \in 1 .. n
    BY <1>1, <1>3 DEF Colors, NoColor
  <2>2. d \in 1 .. n
    BY <1>1, <1>3, <2>1, SceneAssumption
  <2>3. QED
    BY <2>2 DEF Colors
<1>4. QED
  BY <1>2, <1>3

LEMMA DataType ==
    ASSUME NEW data
    PROVE  data \in PlayerDatas <=> /\ DOMAIN data \subseteq Players
                                    /\ data \in [DOMAIN data -> Entries]
<1>1. ASSUME data \in PlayerDatas
      PROVE  DOMAIN data \subseteq Players /\ data \in [DOMAIN data -> Entries]
  <2>1. PICK D \in SUBSET Players : data \in [D -> Entries]
    BY <1>1 DEF PlayerDatas
  <2>2. QED
    BY <2>1
<1>2. ASSUME DOMAIN data \subseteq Players, data \in [DOMAIN data -> Entries]
      PROVE  data \in PlayerDatas
  BY <1>2 DEF PlayerDatas
<1>3. QED
  BY <1>1, <1>2

LEMMA MessageFields ==
    ASSUME NEW msg \in Messages
    PROVE  /\ msg.type \in {"vote", "updatePlayerData"}
           /\ msg.type = "vote" => msg.vote \in Choices
           /\ msg.type = "updatePlayerData" => msg.data \in PlayerDatas
BY DEF Messages

LEMMA EventFields ==
    ASSUME NEW event \in Events
    PROVE  /\ event.type \in {"lobbyUpdated", "message"}
           /\ event.type = "lobbyUpdated" => event.players \in Lists
           /\ event.type = "message" => event.from \in Players /\ event.msg \in Messages
BY DEF Events

\* What Append and Tail do to a stream.
LEMMA AppendedTo ==
    ASSUME NEW S, NEW ms \in Seq(S), NEW m \in S
    PROVE  LET all == Append(ms, m)
           IN  /\ all \in Seq(S)
               /\ Len(all) = Len(ms) + 1
               /\ DOMAIN all = 1 .. Len(ms) + 1
               /\ \A i \in DOMAIN ms : i \in DOMAIN all /\ all[i] = ms[i]
               /\ \A i \in DOMAIN all : \/ i \in DOMAIN ms /\ all[i] = ms[i]
                                        \/ i = Len(ms) + 1 /\ all[i] = m
<1> DEFINE all == Append(ms, m)
<1>1. all \in Seq(S) /\ Len(all) = Len(ms) + 1 /\ all[Len(ms) + 1] = m
  OBVIOUS
<1>2. \A i \in 1 .. Len(ms) : all[i] = ms[i]
  OBVIOUS
<1>3. DOMAIN all = 1 .. Len(ms) + 1 /\ DOMAIN ms = 1 .. Len(ms) /\ Len(ms) \in Nat
  BY <1>1
<1> HIDE DEF all
<1>4. QED
  BY <1>1, <1>2, <1>3 DEF all

LEMMA RestOf ==
    ASSUME NEW S, NEW ms \in Seq(S), ms # <<>>
    PROVE  /\ Tail(ms) \in Seq(S)
           /\ Len(Tail(ms)) = Len(ms) - 1
           /\ \A i \in DOMAIN Tail(ms) : i + 1 \in DOMAIN ms /\ Tail(ms)[i] = ms[i + 1]
           /\ 1 \in DOMAIN ms /\ Head(ms) = ms[1] /\ Head(ms) \in S
OBVIOUS

\* SetVote leaves the colours alone.
LEMMA EntryMade ==
    ASSUME NEW data \in PlayerDatas, NEW id \in Players
    PROVE  LET more == WithEntry(data, id)
           IN  /\ more \in PlayerDatas
               /\ DOMAIN more = DOMAIN data \cup {id}
               /\ \A p \in DOMAIN data : more[p] = data[p]
               /\ \A p \in DOMAIN more \ DOMAIN data : more[p].color = NoColor
<1> DEFINE more == WithEntry(data, id)
<1>1. DOMAIN data \subseteq Players /\ data \in [DOMAIN data -> Entries]
  BY DataType
<1>2. NewEntry \in Entries /\ NewEntry.color = NoColor
  BY MasterPlays DEF NewEntry, Entries
<1>3. CASE id \in DOMAIN data
  BY <1>3 DEF WithEntry
<1>4. CASE id \notin DOMAIN data
  <2>1. more = [p \in DOMAIN data \cup {id} |-> IF p = id THEN NewEntry ELSE data[p]]
    BY <1>4 DEF WithEntry
  <2> HIDE DEF more
  <2>2. DOMAIN more = DOMAIN data \cup {id} /\ more \in [DOMAIN more -> Entries]
    BY <1>1, <1>2, <2>1
  <2>3. more \in PlayerDatas
    BY <1>1, <2>2, DataType
  <2>4. QED
    BY <1>2, <1>4, <2>1, <2>2, <2>3 DEF more
<1>5. QED
  BY <1>3, <1>4

LEMMA VoteSet ==
    ASSUME NEW data \in PlayerDatas, NEW id \in Players, NEW vote \in Choices
    PROVE  LET voted == SetVote(data, id, vote)
           IN  /\ voted \in PlayerDatas
               /\ DOMAIN voted = DOMAIN data \cup {id}
               /\ \A p \in DOMAIN data : voted[p].color = data[p].color
               /\ \A p \in DOMAIN voted \ DOMAIN data : voted[p].color = NoColor
<1> DEFINE more == WithEntry(data, id)
           voted == SetVote(data, id, vote)
<1>1. /\ more \in PlayerDatas
      /\ DOMAIN more = DOMAIN data \cup {id}
      /\ \A p \in DOMAIN data : more[p] = data[p]
      /\ \A p \in DOMAIN more \ DOMAIN data : more[p].color = NoColor
  BY EntryMade
<1>2. voted = [more EXCEPT ![id].vote = vote]
  BY DEF SetVote
<1> HIDE DEF more, voted
<1>3. DOMAIN more \subseteq Players /\ more \in [DOMAIN more -> Entries]
  BY <1>1, DataType
<1>4. /\ voted \in [DOMAIN more -> Entries]
      /\ \A p \in DOMAIN more : voted[p].color = more[p].color
  <2>1. ASSUME NEW e \in Entries
        PROVE  [e EXCEPT !.vote = vote] \in Entries
               /\ [e EXCEPT !.vote = vote].color = e.color
    BY DEF Entries
  <2>2. id \in DOMAIN more /\ more[id] \in Entries
    BY <1>1, <1>3
  <2>3. voted = [more EXCEPT ![id] = [more[id] EXCEPT !.vote = vote]]
    BY <1>2
  <2>4. QED
    BY <1>3, <2>1, <2>2, <2>3
<1>5. DOMAIN voted = DOMAIN more
  BY <1>4
<1>6. voted \in PlayerDatas
  BY <1>3, <1>4, <1>5, DataType
<1>7. QED
  BY <1>1, <1>4, <1>5, <1>6 DEF voted
-----------------------------------------------------------------------------
(* Colours                                                                 *)

\* No player of the master loses or changes his colour.
KeepsColors ==
    \A p \in DOMAIN playerData[Master] :
        /\ p \in DOMAIN playerData'[Master]
        /\ playerData[Master][p].color # NoColor =>
               playerData'[Master][p].color = playerData[Master][p].color

LEMMA StillShown ==
    ASSUME KeepsColors
    PROVE  /\ \A data : Shown(data, playerData[Master]) => Shown(data, playerData'[Master])
           /\ \A msg : MessageShown(msg, playerData[Master]) =>
                           MessageShown(msg, playerData'[Master])
           /\ \A event : EventShown(event, playerData[Master]) =>
                           EventShown(event, playerData'[Master])
<1>1. \A data : Shown(data, playerData[Master]) => Shown(data, playerData'[Master])
  BY DEF KeepsColors, Shown
<1>2. QED
  BY <1>1 DEF MessageShown, EventShown

\* What is on its way was so before the step, or shows the colours of the master.
ShownNext ==
    \A c \in Players :
        /\ \A k \in DOMAIN up'[c] :
               \/ \E j \in DOMAIN up[c] : up'[c][k] = up[c][j]
               \/ MessageShown(up'[c][k], playerData'[Master])
        /\ \A k \in DOMAIN inbox'[c] :
               \/ \E j \in DOMAIN inbox[c] : inbox'[c][k] = inbox[c][j]
               \/ EventShown(inbox'[c][k], playerData'[Master])

LEMMA ColorsStep ==
    ASSUME ColorsOK, KeepsColors, ShownNext,
           Handed(playerData'[Master], colorsLeft'),
           \A c \in Players : \/ playerData'[c] = playerData[c]
                              \/ Shown(playerData'[c], playerData'[Master])
    PROVE  ColorsOK'
<1> DEFINE all == playerData[Master]
           next == playerData'[Master]
<1>1. ASSUME NEW c \in Players PROVE Shown(playerData'[c], next)
  <2>1. Shown(playerData[c], all)
    BY DEF ColorsOK
  <2>2. QED
    BY <2>1, StillShown
<1>2. ASSUME NEW c \in Players, NEW k \in DOMAIN up'[c]
      PROVE  MessageShown(up'[c][k], next)
  <2>1. \A j \in DOMAIN up[c] : MessageShown(up[c][j], all)
    BY DEF ColorsOK
  <2>2. QED
    BY <2>1, StillShown DEF ShownNext
<1>3. ASSUME NEW c \in Players, NEW k \in DOMAIN inbox'[c]
      PROVE  EventShown(inbox'[c][k], next)
  <2>1. \A j \in DOMAIN inbox[c] : EventShown(inbox[c][j], all)
    BY DEF ColorsOK
  <2>2. QED
    BY <2>1, StillShown DEF ShownNext
<1>4. QED
  BY <1>1, <1>2, <1>3 DEF ColorsOK

\* A step of which the colours of the master know nothing.
LEMMA ColorlessStep ==
    ASSUME ColorsOK, ShownNext, UNCHANGED colorsLeft,
           playerData'[Master] = playerData[Master],
           \A c \in Players : \/ playerData'[c] = playerData[c]
                              \/ Shown(playerData'[c], playerData[Master])
    PROVE  ColorsOK'
<1>1. KeepsColors /\ Handed(playerData'[Master], colorsLeft')
  BY DEF KeepsColors, ColorsOK
<1>2. QED
  BY <1>1, ColorsStep
-----------------------------------------------------------------------------
(* What the master knows when he hears from a player                       *)

\* The master takes the first event.
LEMMA InOrderRest ==
    ASSUME NEW ps, NEW es \in Seq(Events), es # <<>>, NEW n \in Nat, InOrder(ps, es, n)
    PROVE  LET next == IF IsUpdate(Head(es)) THEN Head(es).players ELSE ps
           IN  /\ InOrder(next, Tail(es), n)
               /\ ps \subseteq next
               /\ ~IsUpdate(Head(es)) => Head(es).from \in ps
<1> DEFINE next == IF IsUpdate(Head(es)) THEN Head(es).players ELSE ps
           rest == Tail(es)
<1>1. /\ rest \in Seq(Events) /\ Len(rest) = Len(es) - 1
      /\ \A i \in DOMAIN rest : i + 1 \in DOMAIN es /\ rest[i] = es[i + 1]
      /\ 1 \in DOMAIN es /\ Head(es) = es[1]
  BY RestOf
<1>2. /\ DOMAIN rest = 1 .. Len(es) - 1 /\ DOMAIN es = 1 .. Len(es) /\ Len(es) \in Nat
      /\ 1 <= Len(es)
  BY <1>1
<1>3. ps \subseteq next /\ next \subseteq 0 .. n - 1
  BY <1>1 DEF InOrder
<1>4. IsUpdate(es[1]) => next = es[1].players
  BY <1>1
<1> HIDE DEF next, rest
<1>5. ASSUME NEW p, NEW k \in 1 .. Len(es), HearsOf(p, ps, es, k)
      PROVE  HearsOf(p, next, rest, k - 1)
  <2>1. CASE p \in ps
    BY <1>3, <2>1 DEF HearsOf
  <2>2. ASSUME NEW j \in 1 .. k, IsUpdate(es[j]), p \in es[j].players
        PROVE  HearsOf(p, next, rest, k - 1)
    <3>1. CASE j = 1
      BY <1>4, <2>2, <3>1 DEF HearsOf
    <3>2. CASE j # 1
      <4>1. j - 1 \in 1 .. k - 1 /\ j - 1 \in 1 .. Len(es) - 1
        BY <1>2, <3>2
      <4>2. rest[j - 1] = es[(j - 1) + 1] /\ (j - 1) + 1 = j
        BY <1>1, <1>2, <4>1
      <4>3. QED
        BY <2>2, <4>1, <4>2 DEF HearsOf
    <3>3. QED
      BY <3>1, <3>2
  <2>3. QED
    BY <1>5, <2>1, <2>2 DEF HearsOf
<1>6. ASSUME NEW k \in DOMAIN rest, IsUpdate(rest[k])
      PROVE  /\ next \subseteq rest[k].players
             /\ rest[k].players \subseteq 0 .. n - 1
             /\ \A j \in 1 .. k - 1 : IsUpdate(rest[j]) => rest[j].players \subseteq rest[k].players
  <2>1. rest[k] = es[k + 1] /\ k + 1 \in DOMAIN es /\ k \in 1 .. Len(es) - 1
    BY <1>1, <1>2
  <2>2. /\ ps \subseteq rest[k].players
        /\ rest[k].players \subseteq 0 .. n - 1
        /\ \A j \in 1 .. k : IsUpdate(es[j]) => es[j].players \subseteq rest[k].players
    <3>1. (k + 1) - 1 = k
      BY <2>1
    <3>2. QED
      BY <1>6, <2>1, <3>1 DEF InOrder
  <2>3. next \subseteq rest[k].players
    <3>1. CASE IsUpdate(es[1])
      BY <1>4, <2>1, <2>2, <3>1
    <3>2. CASE ~IsUpdate(es[1])
      BY <1>1, <2>2, <3>2 DEF next
    <3>3. QED
      BY <3>1, <3>2
  <2>4. ASSUME NEW j \in 1 .. k - 1, IsUpdate(rest[j])
        PROVE  rest[j].players \subseteq rest[k].players
    <3>1. rest[j] = es[j + 1] /\ j + 1 \in 1 .. k
      BY <1>1, <1>2, <2>1
    <3>2. QED
      BY <2>2, <2>4, <3>1
  <2>5. QED
    BY <2>2, <2>3, <2>4
<1>7. ASSUME NEW k \in DOMAIN rest, ~IsUpdate(rest[k])
      PROVE  HearsOf(rest[k].from, next, rest, k - 1)
  <2>1. rest[k] = es[k + 1] /\ k + 1 \in DOMAIN es /\ k \in 1 .. Len(es) /\ (k + 1) - 1 = k
    BY <1>1, <1>2
  <2>2. HearsOf(rest[k].from, ps, es, k)
    BY <1>7, <2>1 DEF InOrder
  <2>3. QED
    BY <1>5, <2>1, <2>2
<1>8. ASSUME NEW p \in 0 .. n - 1 PROVE HearsOf(p, next, rest, Len(rest))
  <2>1. HearsOf(p, ps, es, Len(es))
    BY DEF InOrder
  <2>2. QED
    BY <1>1, <1>2, <1>5, <2>1
<1>9. ~IsUpdate(Head(es)) => Head(es).from \in ps
  <2>1. ~IsUpdate(es[1]) => HearsOf(es[1].from, ps, es, 0)
    <3>1. 1 - 1 = 0
      OBVIOUS
    <3>2. QED
      BY <1>1, <3>1 DEF InOrder
  <2>2. QED
    BY <1>1, <2>1 DEF HearsOf
<1>10. InOrder(next, rest, n)
  BY <1>3, <1>6, <1>7, <1>8 DEF InOrder
<1>11. QED
  BY <1>3, <1>9, <1>10 DEF next, rest

\* Who hears of somebody in a stream does so when there is more in it.
LEMMA StillHears ==
    ASSUME NEW es \in Seq(Events), NEW e \in Events, NEW k \in 0 .. Len(es),
           NEW p, NEW ps, HearsOf(p, ps, es, k)
    PROVE  HearsOf(p, ps, Append(es, e), k)
<1>1. \A j \in DOMAIN es : Append(es, e)[j] = es[j]
  BY AppendedTo
<1>2. \A j \in 1 .. k : j \in DOMAIN es
  OBVIOUS
<1>3. QED
  BY <1>1, <1>2 DEF HearsOf

\* A message of one of the players is put behind the events.
LEMMA InOrderMessage ==
    ASSUME NEW ps, NEW es \in Seq(Events), NEW n \in Nat, InOrder(ps, es, n),
           NEW e \in Events, ~IsUpdate(e), e.from \in 0 .. n - 1
    PROVE  InOrder(ps, Append(es, e), n)
<1> DEFINE all == Append(es, e)
<1>1. /\ Len(all) = Len(es) + 1
      /\ \A i \in DOMAIN es : i \in DOMAIN all /\ all[i] = es[i]
      /\ \A i \in DOMAIN all : \/ i \in DOMAIN es /\ all[i] = es[i]
                               \/ i = Len(es) + 1 /\ all[i] = e
  BY AppendedTo
<1>2. \A p, k : k \in 0 .. Len(es) /\ HearsOf(p, ps, es, k) => HearsOf(p, ps, all, k)
  BY StillHears
<1>3. DOMAIN es = 1 .. Len(es) /\ Len(es) \in Nat
  OBVIOUS
<1> HIDE DEF all
<1>4. ASSUME NEW k \in DOMAIN all, IsUpdate(all[k])
      PROVE  /\ ps \subseteq all[k].players
             /\ all[k].players \subseteq 0 .. n - 1
             /\ \A j \in 1 .. k - 1 : IsUpdate(all[j]) => all[j].players \subseteq all[k].players
  <2>1. k \in DOMAIN es /\ all[k] = es[k]
    BY <1>1, <1>4
  <2>2. \A j \in 1 .. k - 1 : all[j] = es[j]
    BY <1>1, <1>3, <2>1
  <2>3. QED
    BY <1>4, <2>1, <2>2 DEF InOrder
<1>5. ASSUME NEW k \in DOMAIN all, ~IsUpdate(all[k])
      PROVE  HearsOf(all[k].from, ps, all, k - 1)
  <2>1. CASE k \in DOMAIN es /\ all[k] = es[k]
    <3>1. HearsOf(all[k].from, ps, es, k - 1)
      BY <1>5, <2>1 DEF InOrder
    <3>2. k - 1 \in 0 .. Len(es)
      BY <1>3, <2>1
    <3>3. QED
      BY <1>2, <3>1, <3>2
  <2>2. CASE k = Len(es) + 1 /\ all[k] = e
    <3>1. HearsOf(all[k].from, ps, es, Len(es))
      BY <2>2 DEF InOrder
    <3>2. k - 1 = Len(es) /\ Len(es) \in 0 .. Len(es)
      BY <1>3, <2>2
    <3>3. QED
      BY <1>2, <3>1, <3>2
  <2>3. QED
    BY <1>1, <2>1, <2>2
<1>6. ASSUME NEW p \in 0 .. n - 1 PROVE HearsOf(p, ps, all, Len(all))
  <2>1. HearsOf(p, ps, es, Len(es)) /\ Len(es) \in 0 .. Len(es)
    BY <1>3 DEF InOrder
  <2>2. HearsOf(p, ps, all, Len(es)) /\ Len(all) = Len(es) + 1
    BY <1>1, <1>2, <2>1
  <2>3. QED
    BY <1>3, <2>2 DEF HearsOf
<1>7. ps \subseteq 0 .. n - 1
  BY DEF InOrder
<1>8. InOrder(ps, all, n)
  BY <1>4, <1>5, <1>6, <1>7 DEF InOrder
<1>9. QED
  BY <1>8 DEF all

\* The update about one more player is put behind the events.
LEMMA InOrderUpdate ==
    ASSUME NEW ps, NEW es \in Seq(Events), NEW n \in Nat, InOrder(ps, es, n),
           NEW e \in Events, IsUpdate(e), e.players = 0 .. n
    PROVE  InOrder(ps, Append(es, e), n + 1)
<1> DEFINE all == Append(es, e)
<1>1. /\ Len(all) = Len(es) + 1
      /\ \A i \in DOMAIN es : i \in DOMAIN all /\ all[i] = es[i]
      /\ \A i \in DOMAIN all : \/ i \in DOMAIN es /\ all[i] = es[i]
                               \/ i = Len(es) + 1 /\ all[i] = e
      /\ DOMAIN all = 1 .. Len(es) + 1
  BY AppendedTo
<1>2. \A p, k : k \in 0 .. Len(es) /\ HearsOf(p, ps, es, k) => HearsOf(p, ps, all, k)
  BY StillHears
<1>3. DOMAIN es = 1 .. Len(es) /\ Len(es) \in Nat
  OBVIOUS
<1>4. 0 .. n - 1 \subseteq 0 .. n /\ (n + 1) - 1 = n
  OBVIOUS
<1> HIDE DEF all
<1>5. ASSUME NEW k \in DOMAIN all, IsUpdate(all[k])
      PROVE  /\ ps \subseteq all[k].players
             /\ all[k].players \subseteq 0 .. n
             /\ \A j \in 1 .. k - 1 : IsUpdate(all[j]) => all[j].players \subseteq all[k].players
  <2>1. \A j \in 1 .. k - 1 : j \in DOMAIN es /\ all[j] = es[j]
    BY <1>1, <1>3
  <2>2. CASE k \in DOMAIN es /\ all[k] = es[k]
    <3>1. /\ ps \subseteq all[k].players
          /\ all[k].players \subseteq 0 .. n - 1
          /\ \A j \in 1 .. k - 1 : IsUpdate(es[j]) => es[j].players \subseteq all[k].players
      BY <1>5, <2>2 DEF InOrder
    <3>2. QED
      BY <1>4, <2>1, <3>1
  <2>3. CASE all[k] = e
    <3>1. ps \subseteq 0 .. n - 1
      BY DEF InOrder
    <3>2. \A j \in DOMAIN es : IsUpdate(es[j]) => es[j].players \subseteq 0 .. n - 1
      BY DEF InOrder
    <3>3. QED
      BY <1>4, <2>1, <2>3, <3>1, <3>2
  <2>4. QED
    BY <1>1, <2>2, <2>3
<1>6. ASSUME NEW k \in DOMAIN all, ~IsUpdate(all[k])
      PROVE  HearsOf(all[k].from, ps, all, k - 1)
  <2>1. k \in DOMAIN es /\ all[k] = es[k]
    BY <1>1, <1>6
  <2>2. HearsOf(all[k].from, ps, es, k - 1)
    BY <1>6, <2>1 DEF InOrder
  <2>3. k - 1 \in 0 .. Len(es)
    BY <1>3, <2>1
  <2>4. QED
    BY <1>2, <2>2, <2>3
<1>7. ASSUME NEW p \in 0 .. n PROVE HearsOf(p, ps, all, Len(all))
  <2>1. Len(es) + 1 \in 1 .. Len(all) /\ all[Len(es) + 1] = e
    BY <1>1, <1>3
  <2>2. QED
    BY <2>1 DEF HearsOf
<1>8. ps \subseteq 0 .. n
  BY <1>4 DEF InOrder
<1>9. InOrder(ps, all, n + 1)
  BY <1>4, <1>5, <1>6, <1>7, <1>8 DEF InOrder
<1>10. QED
  BY <1>9 DEF all
\* A step that does not touch what the master knows.
LEMMA VotersStep ==
    ASSUME VotersOK, UNCHANGED joined, stopped \subseteq stopped',
           \A c \in Players : up'[c] # <<>> => up[c] # <<>> \/ c < joined,
           Master \notin stopped' =>
               /\ netPlayers'[Master] = netPlayers[Master]
               /\ inbox'[Master] = inbox[Master]
               /\ DOMAIN playerData'[Master] \subseteq netPlayers[Master]
    PROVE  VotersOK'
BY DEF VotersOK
-----------------------------------------------------------------------------
(* The steps                                                               *)

LEMMA SceneInitInv == Init => SceneInv
<1> SUFFICES ASSUME Init PROVE SceneInv
  OBVIOUS
<1> USE DEF Init
<1>1. NoData \in PlayerDatas /\ DOMAIN NoData = {}
  BY DataType DEF NoData
<1>2. colorsLeft \in Colors
  <2>1. colorsLeft \in Nat
    BY SceneAssumption
  <2>2. CASE colorsLeft = 0
    BY <2>2 DEF Colors, NoColor
  <2>3. CASE colorsLeft # 0
    BY <2>1, <2>3 DEF Colors
  <2>4. QED
    BY <2>2, <2>3
<1>3. TypeOK
  BY <1>1, <1>2, SceneAssumption DEF TypeOK
<1>4. ColorsOK
  BY <1>1, MasterPlays DEF ColorsOK, Handed, Shown
<1>5. VotersOK
  <2>1. 0 .. 0 - 1 = {} /\ Len(<<>>) = 0
    OBVIOUS
  <2>2. InOrder({}, <<>>, 0)
    BY <2>1 DEF InOrder
  <2>3. QED
    BY <1>1, <2>2, MasterPlays DEF VotersOK
<1>6. QED
  BY <1>3, <1>4, <1>5 DEF SceneInv

LEMMA StopInv ==
    ASSUME SceneInv, NEW c \in Players, Stop(c)
    PROVE  SceneInv'
<1>1. /\ TypeOK /\ ColorsOK /\ VotersOK
      /\ inbox' = [inbox EXCEPT ![c] = <<>>]
      /\ stopped' = stopped \cup {c}
      /\ UNCHANGED <<joined, up, netPlayers, playerData, colorsLeft>>
  BY DEF SceneInv, Stop
<1>2. \A d \in Players : inbox'[d] = IF d = c THEN <<>> ELSE inbox[d]
  BY <1>1 DEF TypeOK
<1>3. TypeOK'
  BY <1>1 DEF TypeOK
<1>4. ShownNext
  BY <1>1, <1>2 DEF ShownNext
<1>5. ColorsOK'
  BY <1>1, <1>4, ColorlessStep
<1>6. VotersOK'
  <2>1. Master \notin stopped' => c # Master
    BY <1>1
  <2>2. DOMAIN playerData'[Master] \subseteq netPlayers[Master] \/ Master \in stopped'
    BY <1>1 DEF VotersOK
  <2>3. QED
    BY <1>1, <1>2, <2>1, <2>2, VotersStep, MasterPlays
<1>7. QED
  BY <1>3, <1>5, <1>6 DEF SceneInv

LEMMA JoinInv ==
    ASSUME SceneInv, Join
    PROVE  SceneInv'
<1> DEFINE update == [type |-> "lobbyUpdated", players |-> 0 .. joined]
<1>1. /\ TypeOK /\ ColorsOK /\ VotersOK
      /\ joined < MaxPlayers /\ joined' = joined + 1
      /\ inbox' = [c \in Players |->
               IF c > joined \/ c \in stopped THEN inbox[c]
               ELSE Append(inbox[c], update)]
      /\ UNCHANGED <<up, netPlayers, playerData, colorsLeft, stopped>>
  BY DEF SceneInv, Join
<1>2. joined \in Nat /\ joined \in Players /\ joined' \in 0 .. MaxPlayers
  BY <1>1, SceneAssumption DEF TypeOK, Players
<1>3. update \in Events /\ IsUpdate(update) /\ update.type # "message" /\ update.players = 0 .. joined
  BY <1>2 DEF Events, Lists, IsUpdate
<1> HIDE DEF update
<1>4. ASSUME NEW c \in Players
      PROVE  /\ inbox[c] \in Seq(Events)
             /\ inbox'[c] = inbox[c] \/ inbox'[c] = Append(inbox[c], update)
  BY <1>1 DEF TypeOK
<1>5. TypeOK'
  <2>1. ASSUME NEW c \in Players PROVE inbox'[c] \in Seq(Events)
    <3>1. Append(inbox[c], update) \in Seq(Events)
      BY <1>3, <1>4
    <3>2. QED
      BY <1>4, <3>1
  <2>2. inbox' \in [Players -> Seq(Events)]
    BY <1>1, <2>1
  <2>3. QED
    BY <1>1, <1>2, <2>2 DEF TypeOK
<1>6. ShownNext
  <2>1. ASSUME NEW c \in Players, NEW k \in DOMAIN inbox'[c]
        PROVE  \/ \E j \in DOMAIN inbox[c] : inbox'[c][k] = inbox[c][j]
               \/ EventShown(inbox'[c][k], playerData'[Master])
    <3>1. \/ \E j \in DOMAIN inbox[c] : inbox'[c][k] = inbox[c][j]
          \/ inbox'[c][k] = update
      BY <1>3, <1>4, AppendedTo
    <3>2. QED
      BY <1>3, <3>1 DEF EventShown
  <2>2. QED
    BY <1>1, <2>1 DEF ShownNext
<1>7. ColorsOK'
  BY <1>1, <1>6, ColorlessStep
<1>8. VotersOK'
  <2>1. \A c \in Players : up'[c] # <<>> => c < joined'
    BY <1>1, <1>2 DEF VotersOK, Players
  <2>2. ASSUME Master \notin stopped
        PROVE  InOrder(netPlayers'[Master], inbox'[Master], joined')
    <3>1. inbox'[Master] = Append(inbox[Master], update)
      BY <1>1, <1>2, <2>2, MasterPlays DEF Master
    <3>2. InOrder(netPlayers[Master], inbox[Master], joined)
      BY <1>1, <2>2 DEF VotersOK
    <3>3. InOrder(netPlayers[Master], Append(inbox[Master], update), joined + 1)
      BY <1>2, <1>3, <1>4, <3>2, MasterPlays, InOrderUpdate
    <3>4. QED
      BY <1>1, <3>1, <3>3
  <2>3. QED
    BY <1>1, <2>1, <2>2 DEF VotersOK
<1>9. QED
  BY <1>5, <1>7, <1>8 DEF SceneInv

LEMMA RelayInv ==
    ASSUME SceneInv, NEW c \in Players, Relay(c)
    PROVE  SceneInv'
<1> DEFINE msg == Head(up[c])
           event == [type |-> "message", from |-> c, msg |-> msg]
<1>1. /\ TypeOK /\ ColorsOK /\ VotersOK
      /\ up[c] # <<>>
      /\ UNCHANGED <<joined, netPlayers, playerData, colorsLeft, stopped>>
  BY DEF SceneInv, Relay
<1>2. \/ inbox' = inbox
      \/ \E r : inbox' = [inbox EXCEPT ![r] = Append(@, event)]
  BY DEF Relay
<1>3. up' = up \/ up' = [up EXCEPT ![c] = Tail(@)]
  BY DEF Relay
<1>4. /\ up[c] \in Seq(Messages) /\ msg \in Messages
      /\ 1 \in DOMAIN up[c] /\ msg = up[c][1]
  <2>1. up[c] \in Seq(Messages)
    BY <1>1 DEF TypeOK
  <2>2. QED
    BY <1>1, <2>1, RestOf
<1> HIDE DEF msg
<1>5. event \in Events /\ ~IsUpdate(event) /\ event.from = c /\ event.msg = msg
  BY <1>4 DEF Events, IsUpdate
<1>6. EventShown(event, playerData'[Master])
  <2>1. MessageShown(msg, playerData[Master])
    BY <1>1, <1>4 DEF ColorsOK
  <2>2. QED
    BY <1>1, <1>5, <2>1 DEF EventShown
<1> HIDE DEF event
<1>7. ASSUME NEW d \in Players
      PROVE  /\ inbox[d] \in Seq(Events)
             /\ inbox'[d] = inbox[d] \/ inbox'[d] = Append(inbox[d], event)
             /\ up'[d] = up[d] \/ (d = c /\ up'[d] = Tail(up[d]))
  BY <1>1, <1>2, <1>3 DEF TypeOK
<1>8. TypeOK'
  <2>1. ASSUME NEW d \in Players PROVE inbox'[d] \in Seq(Events)
    <3>1. Append(inbox[d], event) \in Seq(Events)
      BY <1>5, <1>7
    <3>2. QED
      BY <1>7, <3>1
  <2>2. inbox' \in [Players -> Seq(Events)]
    BY <1>1, <1>2, <2>1 DEF TypeOK
  <2>3. Tail(up[c]) \in Seq(Messages)
    BY <1>1, <1>4, RestOf
  <2>4. up' \in [Players -> Seq(Messages)]
    BY <1>1, <1>3, <2>3 DEF TypeOK
  <2>5. QED
    BY <1>1, <2>2, <2>4 DEF TypeOK
<1>9. ShownNext
  <2>1. ASSUME NEW d \in Players, NEW k \in DOMAIN inbox'[d]
        PROVE  \/ \E j \in DOMAIN inbox[d] : inbox'[d][k] = inbox[d][j]
               \/ EventShown(inbox'[d][k], playerData'[Master])
    <3>1. \/ \E j \in DOMAIN inbox[d] : inbox'[d][k] = inbox[d][j]
          \/ inbox'[d][k] = event
      <4>1. CASE inbox'[d] = inbox[d]
        BY <4>1
      <4>2. CASE inbox'[d] = Append(inbox[d], event)
        BY <1>5, <1>7, <4>2, AppendedTo
      <4>3. QED
        BY <1>7, <4>1, <4>2
    <3>2. QED
      BY <1>6, <3>1
  <2>2. ASSUME NEW d \in Players, NEW k \in DOMAIN up'[d]
        PROVE  \E j \in DOMAIN up[d] : up'[d][k] = up[d][j]
    <3>1. CASE up'[d] = up[d]
      BY <3>1
    <3>2. CASE d = c /\ up'[d] = Tail(up[d])
      <4>1. k + 1 \in DOMAIN up[c] /\ up'[d][k] = up[c][k + 1]
        BY <1>1, <1>4, <3>2, RestOf
      <4>2. QED
        BY <3>2, <4>1
    <3>3. QED
      BY <1>7, <3>1, <3>2
  <2>3. QED
    BY <2>1, <2>2 DEF ShownNext
<1>10. ColorsOK'
  BY <1>1, <1>9, ColorlessStep
<1>11. VotersOK'
  <2>1. \A d \in Players : up'[d] # <<>> => d < joined'
    BY <1>1, <1>7 DEF VotersOK
  <2>2. ASSUME Master \notin stopped
        PROVE  InOrder(netPlayers'[Master], inbox'[Master], joined')
    <3>1. InOrder(netPlayers[Master], inbox[Master], joined)
      BY <1>1, <2>2 DEF VotersOK
    <3>2. c \in 0 .. joined - 1 /\ joined \in Nat
      BY <1>1 DEF VotersOK, Players, TypeOK
    <3>3. InOrder(netPlayers[Master], Append(inbox[Master], event), joined)
      BY <1>5, <1>7, <3>1, <3>2, MasterPlays, InOrderMessage
    <3>4. QED
      BY <1>1, <1>7, <3>1, <3>3, MasterPlays
  <2>3. QED
    BY <1>1, <2>1, <2>2 DEF VotersOK
<1>12. QED
  BY <1>8, <1>10, <1>11 DEF SceneInv
-----------------------------------------------------------------------------
(* The events                                                              *)

\* more has the colours of data and no others.
NoMoreColors(data, more) ==
    /\ DOMAIN data \subseteq DOMAIN more
    /\ \A p \in DOMAIN data : more[p].color = data[p].color
    /\ \A p \in DOMAIN more \ DOMAIN data : more[p].color = NoColor

LEMMA SameColors ==
    ASSUME NEW data, NEW more, NoMoreColors(data, more)
    PROVE  /\ \A left : Handed(data, left) => Handed(more, left)
           /\ \A all : Shown(data, all) => Shown(more, all)
BY DEF NoMoreColors, Handed, Shown

LEMMA AddsNoColors ==
    ASSUME NEW data \in PlayerDatas, NEW id \in Players, NEW vote \in Choices
    PROVE  /\ NoMoreColors(data, WithEntry(data, id))
           /\ NoMoreColors(data, SetVote(data, id, vote))
           /\ WithEntry(data, id) \in PlayerDatas
           /\ SetVote(data, id, vote) \in PlayerDatas
           /\ DOMAIN WithEntry(data, id) = DOMAIN data \cup {id}
           /\ DOMAIN SetVote(data, id, vote) = DOMAIN data \cup {id}
<1>1. LET more == WithEntry(data, id)
      IN  /\ more \in PlayerDatas /\ DOMAIN more = DOMAIN data \cup {id}
          /\ NoMoreColors(data, more)
  BY EntryMade DEF NoMoreColors
<1>2. LET more == SetVote(data, id, vote)
      IN  /\ more \in PlayerDatas /\ DOMAIN more = DOMAIN data \cup {id}
          /\ NoMoreColors(data, more)
  <2> DEFINE more == SetVote(data, id, vote)
  <2>1. /\ more \in PlayerDatas /\ DOMAIN more = DOMAIN data \cup {id}
        /\ \A p \in DOMAIN data : more[p].color = data[p].color
        /\ \A p \in DOMAIN more \ DOMAIN data : more[p].color = NoColor
    BY VoteSet
  <2> HIDE DEF more
  <2>2. NoMoreColors(data, more)
    BY <2>1 DEF NoMoreColors
  <2>3. QED
    BY <2>1, <2>2 DEF more
<1>3. QED
  BY <1>1, <1>2

\* processMessage at c, about a message of from.
LEMMA MessageProcessed ==
    ASSUME TypeOK, ColorsOK, NEW c \in Players, NEW from \in Players, NEW msg \in Messages,
           MessageShown(msg, playerData[Master]), ProcessMessage(c, from, msg)
    PROVE  \E new \in PlayerDatas :
               /\ playerData' = [playerData EXCEPT ![c] = new]
               /\ \/ up' = up
                  \/ /\ c = Master
                     /\ up' = [up EXCEPT ![c] = Append(@, PlayerData(new))]
               /\ c = Master => /\ NoMoreColors(playerData[c], new)
                                /\ DOMAIN new \subseteq DOMAIN playerData[c] \cup {from}
               /\ c # Master => Shown(new, playerData[Master])
<1> DEFINE data == playerData[c]
<1>1. data \in PlayerDatas /\ playerData \in [Players -> PlayerDatas]
  BY DEF TypeOK
<1>2. Shown(data, playerData[Master])
  BY DEF ColorsOK
<1>3. CASE /\ msg.type = "vote"
           /\ playerData' = [playerData EXCEPT ![c] = SetVote(@, from, msg.vote)]
           /\ SendNews(c, playerData'[c])
  <2> DEFINE new == SetVote(data, from, msg.vote)
  <2>1. /\ NoMoreColors(data, new) /\ new \in PlayerDatas
        /\ DOMAIN new = DOMAIN data \cup {from}
    BY <1>1, <1>3, MessageFields, AddsNoColors
  <2> HIDE DEF new
  <2>2. playerData' = [playerData EXCEPT ![c] = new]
    BY <1>3 DEF new
  <2>3. playerData'[c] = new
    BY <1>1, <2>2
  <2>4. \/ up' = up
        \/ c = Master /\ up' = [up EXCEPT ![c] = Append(@, PlayerData(new))]
    BY <1>3, <2>3 DEF SendNews, SendMessage
  <2>5. Shown(new, playerData[Master])
    BY <1>2, <2>1, SameColors
  <2>6. QED
    BY <2>1, <2>2, <2>4, <2>5
<1>4. CASE /\ msg.type = "updatePlayerData"
           /\ playerData' = [playerData EXCEPT ![c] =
                  IF c = Master THEN WithEntry(@, from) ELSE msg.data]
           /\ UNCHANGED up
  <2>1. CASE c = Master
    <3> DEFINE new == WithEntry(data, from)
    <3>1. /\ NoMoreColors(data, new) /\ new \in PlayerDatas
          /\ DOMAIN new = DOMAIN data \cup {from}
      BY <1>1, AddsNoColors, ChoicesNat
    <3>2. playerData' = [playerData EXCEPT ![c] = new]
      BY <1>4, <2>1
    <3> HIDE DEF new
    <3>3. QED
      BY <1>4, <2>1, <3>1, <3>2
  <2>2. CASE c # Master
    <3>1. msg.data \in PlayerDatas /\ Shown(msg.data, playerData[Master])
      BY <1>4, MessageFields DEF MessageShown
    <3>2. playerData' = [playerData EXCEPT ![c] = msg.data]
      BY <1>4, <2>2
    <3>3. QED
      BY <1>4, <2>2, <3>1, <3>2
  <2>3. QED
    BY <2>1, <2>2
<1>5. QED
  BY <1>3, <1>4 DEF ProcessMessage

LEMMA ProcessEventInv ==
    ASSUME SceneInv, NEW c \in Players, ProcessEvent(c)
    PROVE  SceneInv' /\ KeepsColors
<1> DEFINE event == Head(inbox[c])
<1>1. /\ TypeOK /\ ColorsOK /\ VotersOK
      /\ inbox[c] # <<>> /\ c < joined /\ c \notin stopped
      /\ inbox' = [inbox EXCEPT ![c] = Tail(@)]
      /\ UNCHANGED <<joined, colorsLeft, stopped>>
  BY DEF SceneInv, ProcessEvent, Running
<1>2. inbox[c] \in Seq(Events)
  BY <1>1 DEF TypeOK
<1>3. /\ event \in Events /\ Tail(inbox[c]) \in Seq(Events)
      /\ 1 \in DOMAIN inbox[c] /\ event = inbox[c][1]
      /\ \A i \in DOMAIN Tail(inbox[c]) :
             i + 1 \in DOMAIN inbox[c] /\ Tail(inbox[c])[i] = inbox[c][i + 1]
  BY <1>1, <1>2, RestOf
<1>4. \/ /\ IsUpdate(event)
         /\ netPlayers' = [netPlayers EXCEPT ![c] = event.players]
         /\ UNCHANGED <<up, playerData>>
      \/ /\ event.type = "message"
         /\ ProcessMessage(c, event.from, event.msg)
         /\ UNCHANGED netPlayers
  BY DEF ProcessEvent, IsUpdate
<1> HIDE DEF event
<1>5. \A d \in Players : inbox'[d] = IF d = c THEN Tail(inbox[c]) ELSE inbox[d]
  BY <1>1 DEF TypeOK
<1>6. ASSUME NEW d \in Players, NEW k \in DOMAIN inbox'[d]
      PROVE  \E j \in DOMAIN inbox[d] : inbox'[d][k] = inbox[d][j]
  <2>1. CASE d = c
    <3>1. k + 1 \in DOMAIN inbox[c] /\ inbox'[d][k] = inbox[c][k + 1]
      BY <1>3, <1>5, <2>1
    <3>2. QED
      BY <2>1, <3>1
  <2>2. CASE d # c
    BY <1>5, <2>2
  <2>3. QED
    BY <2>1, <2>2
<1>7. ASSUME Master \notin stopped, c = Master
      PROVE  LET next == IF IsUpdate(event) THEN event.players ELSE netPlayers[c]
             IN  /\ InOrder(next, inbox'[c], joined')
                 /\ netPlayers[c] \subseteq next
                 /\ ~IsUpdate(event) => event.from \in netPlayers[c]
  <2>1. joined \in Nat /\ InOrder(netPlayers[c], inbox[c], joined)
    BY <1>1, <1>7 DEF TypeOK, VotersOK
  <2>2. QED
    BY <1>1, <1>2, <1>5, <2>1, InOrderRest DEF event
<1>8. inbox' \in [Players -> Seq(Events)]
  BY <1>1, <1>3 DEF TypeOK
<1>9. CASE /\ IsUpdate(event)
           /\ netPlayers' = [netPlayers EXCEPT ![c] = event.players]
           /\ UNCHANGED <<up, playerData>>
  <2>1. event.players \in Lists
    BY <1>3, <1>9, EventFields DEF IsUpdate
  <2>2. TypeOK'
    BY <1>1, <1>8, <1>9, <2>1 DEF TypeOK
  <2>3. ShownNext
    BY <1>6, <1>9 DEF ShownNext
  <2>4. ColorsOK'
    BY <1>1, <1>9, <2>3, ColorlessStep
  <2>5. VotersOK'
    <3>1. CASE c = Master
      <4>1. netPlayers'[Master] = event.players
        BY <1>1, <1>9, <3>1, MasterPlays DEF TypeOK
      <4>2. InOrder(netPlayers'[Master], inbox'[Master], joined')
        BY <1>1, <1>7, <1>9, <3>1, <4>1
      <4>3. DOMAIN playerData'[Master] \subseteq netPlayers'[Master]
        <5>1. netPlayers[Master] \subseteq event.players
          BY <1>1, <1>7, <1>9, <3>1
        <5>2. DOMAIN playerData[Master] \subseteq netPlayers[Master]
          BY <1>1, <3>1 DEF VotersOK
        <5>3. QED
          BY <1>9, <4>1, <5>1, <5>2
      <4>4. QED
        BY <1>1, <1>9, <4>2, <4>3 DEF VotersOK
    <3>2. CASE c # Master
      <4>1. netPlayers'[Master] = netPlayers[Master] /\ inbox'[Master] = inbox[Master]
        BY <1>1, <1>5, <1>9, <3>2, MasterPlays DEF TypeOK
      <4>2. Master \notin stopped => DOMAIN playerData'[Master] \subseteq netPlayers[Master]
        BY <1>1, <1>9 DEF VotersOK
      <4>3. QED
        BY <1>1, <1>9, <4>1, <4>2, VotersStep
    <3>3. QED
      BY <3>1, <3>2
  <2>6. QED
    BY <1>9, <2>2, <2>4, <2>5 DEF SceneInv, KeepsColors
<1>10. CASE /\ event.type = "message"
            /\ ProcessMessage(c, event.from, event.msg)
            /\ UNCHANGED netPlayers
  <2>1. event.from \in Players /\ event.msg \in Messages /\ ~IsUpdate(event)
    BY <1>3, <1>10, EventFields DEF IsUpdate
  <2>2. MessageShown(event.msg, playerData[Master])
    <3>1. EventShown(event, playerData[Master])
      BY <1>1, <1>3 DEF ColorsOK
    <3>2. QED
      BY <1>10, <3>1 DEF EventShown
  <2>3. PICK new \in PlayerDatas :
               /\ playerData' = [playerData EXCEPT ![c] = new]
               /\ \/ up' = up
                  \/ /\ c = Master
                     /\ up' = [up EXCEPT ![c] = Append(@, PlayerData(new))]
               /\ c = Master => /\ NoMoreColors(playerData[c], new)
                                /\ DOMAIN new \subseteq DOMAIN playerData[c] \cup {event.from}
               /\ c # Master => Shown(new, playerData[Master])
    BY <1>1, <1>10, <2>1, <2>2, MessageProcessed
  <2>4. \A d \in Players : playerData'[d] = IF d = c THEN new ELSE playerData[d]
    BY <1>1, <2>3 DEF TypeOK
  <2>5. PlayerData(new) \in Messages /\ MessageShown(PlayerData(new), new)
    BY DEF Messages, PlayerData, MessageShown, Shown
  <2>6. ASSUME NEW d \in Players
        PROVE  /\ up[d] \in Seq(Messages)
               /\ \/ up'[d] = up[d]
                  \/ d = c /\ c = Master /\ up'[d] = Append(up[d], PlayerData(new))
    BY <1>1, <2>3 DEF TypeOK
  <2>7. TypeOK'
    <3>1. playerData' \in [Players -> PlayerDatas]
      BY <1>1, <2>3 DEF TypeOK
    <3>2. up' \in [Players -> Seq(Messages)]
      <4>1. Append(up[c], PlayerData(new)) \in Seq(Messages)
        BY <2>5, <2>6
      <4>2. QED
        BY <1>1, <2>3, <4>1 DEF TypeOK
    <3>3. QED
      BY <1>1, <1>8, <1>10, <3>1, <3>2 DEF TypeOK
  <2>8. ShownNext
    <3>1. ASSUME NEW d \in Players, NEW k \in DOMAIN up'[d]
          PROVE  \/ \E j \in DOMAIN up[d] : up'[d][k] = up[d][j]
                 \/ MessageShown(up'[d][k], playerData'[Master])
      <4>1. CASE up'[d] = up[d]
        BY <4>1
      <4>2. CASE d = c /\ c = Master /\ up'[d] = Append(up[d], PlayerData(new))
        <5>1. \/ \E j \in DOMAIN up[d] : up'[d][k] = up[d][j]
              \/ up'[d][k] = PlayerData(new)
          BY <2>5, <2>6, <4>2, AppendedTo
        <5>2. playerData'[Master] = new
          BY <2>4, <4>2
        <5>3. QED
          BY <2>5, <5>1, <5>2
      <4>3. QED
        BY <2>6, <4>1, <4>2
    <3>2. QED
      BY <1>6, <3>1 DEF ShownNext
  <2>9. ColorsOK' /\ KeepsColors
    <3>1. CASE c = Master
      <4>1. playerData'[Master] = new /\ NoMoreColors(playerData[Master], new)
        BY <2>3, <2>4, <3>1
      <4>2. KeepsColors
        BY <4>1 DEF KeepsColors, NoMoreColors
      <4>3. Handed(playerData'[Master], colorsLeft')
        BY <1>1, <4>1, SameColors DEF ColorsOK
      <4>4. \A d \in Players : \/ playerData'[d] = playerData[d]
                               \/ Shown(playerData'[d], playerData'[Master])
        BY <2>4, <3>1 DEF Shown
      <4>5. QED
        BY <1>1, <2>8, <4>2, <4>3, <4>4, ColorsStep
    <3>2. CASE c # Master
      <4>1. ColorsOK'
        BY <1>1, <2>3, <2>4, <2>8, <3>2, ColorlessStep, MasterPlays
      <4>2. KeepsColors
        BY <2>4, <3>2, MasterPlays DEF KeepsColors
      <4>3. QED
        BY <4>1, <4>2
    <3>3. QED
      BY <3>1, <3>2
  <2>10. VotersOK'
    <3>1. \A d \in Players : up'[d] # <<>> => d < joined'
      BY <1>1, <2>6 DEF VotersOK
    <3>2. ASSUME Master \notin stopped'
          PROVE  /\ DOMAIN playerData'[Master] \subseteq netPlayers'[Master]
                 /\ InOrder(netPlayers'[Master], inbox'[Master], joined')
      <4>1. /\ DOMAIN playerData[Master] \subseteq netPlayers[Master]
            /\ InOrder(netPlayers[Master], inbox[Master], joined)
        BY <1>1, <3>2 DEF VotersOK
      <4>2. CASE c = Master
        <5>1. event.from \in netPlayers[Master] /\ InOrder(netPlayers[Master], inbox'[Master], joined')
          BY <1>1, <1>7, <2>1, <4>2
        <5>2. DOMAIN playerData'[Master] \subseteq netPlayers[Master]
          BY <2>3, <2>4, <4>1, <4>2, <5>1
        <5>3. QED
          BY <1>10, <5>1, <5>2
      <4>3. CASE c # Master
        BY <1>1, <1>5, <1>10, <2>4, <4>1, <4>3, MasterPlays
      <4>4. QED
        BY <4>2, <4>3
    <3>3. QED
      BY <3>1, <3>2 DEF VotersOK
  <2>11. QED
    BY <2>7, <2>9, <2>10 DEF SceneInv
<1>11. QED
  BY <1>4, <1>9, <1>10
-----------------------------------------------------------------------------
(* The frames                                                              *)

LEMMA VoteOfOtherInv ==
    ASSUME SceneInv, NEW c \in Players, NEW vote \in Choices, VoteOfOther(c, vote)
    PROVE  SceneInv'
<1> DEFINE new == SetVote(playerData[c], c, vote)
           msg == [type |-> "vote", vote |-> vote]
<1>1. /\ TypeOK /\ ColorsOK /\ VotersOK
      /\ c # Master /\ c < joined
      /\ playerData' = [playerData EXCEPT ![c] = new]
      /\ up' = [up EXCEPT ![c] = Append(@, msg)]
      /\ UNCHANGED <<joined, inbox, netPlayers, colorsLeft, stopped>>
  BY DEF SceneInv, VoteOfOther, InTick, Running, SendMessage, netVars
<1>2. playerData[c] \in PlayerDatas /\ up[c] \in Seq(Messages)
  BY <1>1 DEF TypeOK
<1>3. NoMoreColors(playerData[c], new) /\ new \in PlayerDatas
  BY <1>2, AddsNoColors
<1>4. msg \in Messages /\ \A all : MessageShown(msg, all)
  BY DEF Messages, MessageShown
<1> HIDE DEF new, msg
<1>5. ASSUME NEW d \in Players
      PROVE  /\ playerData'[d] = IF d = c THEN new ELSE playerData[d]
             /\ up'[d] = IF d = c THEN Append(up[c], msg) ELSE up[d]
  BY <1>1 DEF TypeOK
<1>6. TypeOK'
  <2>1. Append(up[c], msg) \in Seq(Messages)
    BY <1>2, <1>4
  <2>2. QED
    BY <1>1, <1>3, <2>1 DEF TypeOK
<1>7. ShownNext
  <2>1. ASSUME NEW d \in Players, NEW k \in DOMAIN up'[d]
        PROVE  \/ \E j \in DOMAIN up[d] : up'[d][k] = up[d][j]
               \/ MessageShown(up'[d][k], playerData'[Master])
    <3>1. CASE d = c
      <4>1. \/ \E j \in DOMAIN up[d] : up'[d][k] = up[d][j]
            \/ up'[d][k] = msg
        <5>1. up'[d] = Append(up[d], msg)
          BY <1>5, <3>1
        <5>2. QED
          BY <1>2, <1>4, <3>1, <5>1, AppendedTo
      <4>2. QED
        BY <1>4, <4>1
    <3>2. CASE d # c
      BY <1>5, <3>2
    <3>3. QED
      BY <3>1, <3>2
  <2>2. QED
    BY <1>1, <2>1 DEF ShownNext
<1>8. ColorsOK'
  <2>1. Shown(new, playerData[Master])
    BY <1>1, <1>3, SameColors DEF ColorsOK
  <2>2. QED
    BY <1>1, <1>5, <1>7, <2>1, ColorlessStep, MasterPlays
<1>9. VotersOK'
  <2>1. \A d \in Players : up'[d] # <<>> => up[d] # <<>> \/ d < joined
    BY <1>1, <1>5
  <2>2. playerData'[Master] = playerData[Master]
    BY <1>1, <1>5, MasterPlays
  <2>3. Master \notin stopped' => DOMAIN playerData'[Master] \subseteq netPlayers[Master]
    BY <1>1, <2>2 DEF VotersOK
  <2>4. QED
    BY <1>1, <2>1, <2>3, VotersStep
<1>10. QED
  BY <1>6, <1>8, <1>9 DEF SceneInv

\* The players who have no data yet, and those of them before p, are finitely many.
LEMMA MissingSize ==
    ASSUME TypeOK
    PROVE  /\ Missing \subseteq Players
           /\ IsFiniteSet(Missing)
           /\ Cardinality(Missing) \in Nat
           /\ \A p \in Missing :
                  LET before == {q \in Missing : q < p}
                  IN  /\ Cardinality(before) \in Nat
                      /\ Cardinality(before) < Cardinality(Missing)
           /\ \A p, q \in Missing : p < q =>
                  Cardinality({r \in Missing : r < p}) < Cardinality({r \in Missing : r < q})
<1>1. Missing \subseteq Players /\ Players \subseteq Nat
  <2>1. netPlayers[Master] \in Lists \cup {{}}
    BY MasterPlays DEF TypeOK
  <2>2. netPlayers[Master] \subseteq Players
    BY <2>1, SceneAssumption DEF Lists, Players
  <2>3. QED
    BY <2>2, SceneAssumption DEF Missing, Players
<1>2. IsFiniteSet(Players)
  BY SceneAssumption, FS_Interval DEF Players
<1>3. IsFiniteSet(Missing) /\ Cardinality(Missing) \in Nat
  BY <1>1, <1>2, FS_Subset, FS_CardinalityType
<1>4. ASSUME NEW S, NEW T, S \subseteq T, T \subseteq Missing, NEW p \in T, p \notin S
      PROVE  /\ Cardinality(S) \in Nat /\ Cardinality(S) < Cardinality(T)
  <2>1. IsFiniteSet(T) /\ IsFiniteSet(S)
    BY <1>3, <1>4, FS_Subset
  <2>2. S # T
    BY <1>4
  <2>3. Cardinality(S) \in Nat /\ Cardinality(T) \in Nat /\ Cardinality(S) <= Cardinality(T)
    BY <1>4, <2>1, FS_Subset, FS_CardinalityType
  <2>4. Cardinality(S) # Cardinality(T)
    BY <1>4, <2>1, <2>2, FS_Subset
  <2>5. QED
    BY <2>3, <2>4
<1>5. ASSUME NEW p \in Missing
      PROVE  LET before == {q \in Missing : q < p}
             IN  /\ Cardinality(before) \in Nat
                 /\ Cardinality(before) < Cardinality(Missing)
  <2>1. p \notin {q \in Missing : q < p}
    BY <1>1
  <2>2. QED
    BY <1>4, <2>1
<1>6. ASSUME NEW p \in Missing, NEW q \in Missing, p < q
      PROVE  Cardinality({r \in Missing : r < p}) < Cardinality({r \in Missing : r < q})
  <2> DEFINE S == {r \in Missing : r < p}
             T == {r \in Missing : r < q}
  <2>1. S \subseteq T /\ T \subseteq Missing /\ p \in T /\ p \notin S
    <3>1. p \in Nat /\ q \in Nat /\ Missing \subseteq Nat
      BY <1>1
    <3>2. \A r \in Missing : r < p => r < q
      BY <1>6, <3>1
    <3>3. ~(p < p)
      BY <3>1
    <3>4. QED
      BY <1>6, <3>2, <3>3
  <2> HIDE DEF S, T
  <2>2. Cardinality(S) < Cardinality(T)
    BY <1>4, <2>1
  <2>3. QED
    BY <2>2 DEF S, T
<1>7. QED
  BY <1>1, <1>3, <1>5, <1>6
\* The master gives every new player a colour of his own.
LEMMA CompletedData ==
    ASSUME TypeOK, Cardinality(Missing) <= colorsLeft,
           Handed(playerData[Master], colorsLeft)
    PROVE  /\ Completed \in PlayerDatas
           /\ DOMAIN Completed = DOMAIN playerData[Master] \cup Missing
           /\ \A p \in DOMAIN playerData[Master] : Completed[p] = playerData[Master][p]
           /\ Handed(Completed, colorsLeft - Cardinality(Missing))
           /\ colorsLeft - Cardinality(Missing) \in Colors
<1> DEFINE all == playerData[Master]
           left == colorsLeft - Cardinality(Missing)
<1>1. colorsLeft \in Colors /\ colorsLeft \in Nat /\ all \in PlayerDatas
  BY ColorsNat, MasterPlays DEF TypeOK
<1>2. /\ Missing \subseteq Players /\ Players \subseteq Nat
      /\ Cardinality(Missing) \in Nat
      /\ left \in Nat /\ left <= colorsLeft
  BY <1>1, MissingSize, SceneAssumption DEF Players
<1>3. DOMAIN all \subseteq Players /\ all \in [DOMAIN all -> Entries]
  BY <1>1, DataType
<1>4. \A p \in Missing : p \notin DOMAIN all
  BY DEF Missing
<1>5. ASSUME NEW p \in Missing
      PROVE  /\ ColorFor(p) \in Nat
             /\ left < ColorFor(p) /\ ColorFor(p) <= colorsLeft
  <2> DEFINE n == Cardinality({q \in Missing : q < p})
  <2>1. n \in Nat /\ n < Cardinality(Missing)
    BY MissingSize
  <2>2. ColorFor(p) = colorsLeft - n
    BY DEF ColorFor
  <2> HIDE DEF n
  <2>3. QED
    BY <1>1, <1>2, <2>1, <2>2
<1>6. ASSUME NEW p \in Missing, NEW q \in Missing, p < q
      PROVE  ColorFor(q) # ColorFor(p)
  <2> DEFINE n == Cardinality({r \in Missing : r < p})
             m == Cardinality({r \in Missing : r < q})
  <2>1. n \in Nat /\ m \in Nat /\ n < m
    BY <1>6, MissingSize
  <2>2. ColorFor(p) = colorsLeft - n /\ ColorFor(q) = colorsLeft - m
    BY DEF ColorFor
  <2> HIDE DEF n, m
  <2>3. QED
    BY <1>1, <2>1, <2>2
<1>7. \A p, q \in Missing : p # q => ColorFor(p) # ColorFor(q)
  <2>1. \A p, q \in Missing : p # q => p < q \/ q < p
    BY <1>2
  <2>2. QED
    BY <1>6, <2>1
<1>8. ASSUME NEW p \in Missing PROVE [color |-> ColorFor(p), vote |-> NoVote] \in Entries
  BY <1>1, <1>5, LowerColors DEF Entries
<1>9. /\ Completed = [p \in Missing \cup DOMAIN all |->
                         IF p \in Missing THEN [color |-> ColorFor(p), vote |-> NoVote]
                         ELSE all[p]]
  BY DEF Completed
<1> HIDE DEF all, left
<1>10. /\ DOMAIN Completed = DOMAIN all \cup Missing
       /\ \A p \in DOMAIN all : Completed[p] = all[p]
       /\ \A p \in Missing : Completed[p] = [color |-> ColorFor(p), vote |-> NoVote]
  BY <1>4, <1>9
<1>11. Completed \in [DOMAIN Completed -> Entries]
  BY <1>3, <1>8, <1>9, <1>10
<1>12. Completed \in PlayerDatas
  BY <1>2, <1>3, <1>10, <1>11, DataType
<1>13. Handed(Completed, left)
  <2>1. ASSUME NEW p \in DOMAIN all, all[p].color # NoColor
        PROVE  /\ all[p].color > colorsLeft /\ all[p].color \in Nat
               /\ \A q \in DOMAIN all \ {p} : all[q].color # all[p].color
    <3>1. all[p] \in Entries
      BY <1>3
    <3>2. all[p].color \in Nat
      BY <3>1, ColorsNat DEF Entries
    <3>3. QED
      BY <2>1, <3>2 DEF Handed, all
  <2>2. ASSUME NEW p \in DOMAIN all, Completed[p].color # NoColor
        PROVE  /\ Completed[p].color > left
               /\ \A q \in DOMAIN Completed \ {p} : Completed[q].color # Completed[p].color
    <3>1. Completed[p] = all[p]
      BY <1>10
    <3>2. all[p].color > left
      BY <1>1, <1>2, <2>1, <2>2, <3>1
    <3>3. ASSUME NEW q \in Missing PROVE Completed[q].color # all[p].color
      <4>1. Completed[q].color = ColorFor(q)
        BY <1>10
      <4>2. QED
        BY <1>1, <1>5, <2>1, <2>2, <3>1, <4>1
    <3>4. ASSUME NEW q \in DOMAIN all \ {p} PROVE Completed[q].color # all[p].color
      BY <1>10, <2>1, <2>2, <3>1
    <3>5. QED
      BY <1>10, <3>1, <3>2, <3>3, <3>4
  <2>3. ASSUME NEW p \in Missing
        PROVE  /\ Completed[p].color > left
               /\ \A q \in DOMAIN Completed \ {p} : Completed[q].color # Completed[p].color
    <3>1. Completed[p].color = ColorFor(p)
      BY <1>10
    <3>2. ColorFor(p) > left
      BY <1>2, <1>5
    <3>3. ASSUME NEW q \in Missing \ {p} PROVE Completed[q].color # ColorFor(p)
      BY <1>7, <1>10
    <3>4. ASSUME NEW q \in DOMAIN all PROVE Completed[q].color # ColorFor(p)
      <4>1. Completed[q] = all[q]
        BY <1>10
      <4>2. CASE all[q].color = NoColor
        BY <1>2, <1>5, <4>1, <4>2 DEF NoColor
      <4>3. CASE all[q].color # NoColor
        BY <1>1, <1>5, <2>1, <4>1, <4>3
      <4>4. QED
        BY <4>2, <4>3
    <3>5. QED
      BY <1>10, <3>1, <3>2, <3>3, <3>4
  <2>4. QED
    BY <1>10, <2>2, <2>3 DEF Handed
<1>14. left \in Colors
  BY <1>1, <1>2, LowerColors
<1>15. QED
  BY <1>10, <1>12, <1>13, <1>14 DEF all, left

LEMMA AllAppended ==
    ASSUME NEW S, NEW ms \in Seq(S), NEW a \in Seq(S)
    PROVE  /\ ms \o a \in Seq(S)
           /\ \A k \in DOMAIN (ms \o a) :
                  \/ \E j \in DOMAIN ms : (ms \o a)[k] = ms[j]
                  \/ \E j \in DOMAIN a : (ms \o a)[k] = a[j]
<1>1. /\ ms \o a \in Seq(S) /\ Len(ms \o a) = Len(ms) + Len(a)
      /\ Len(ms) \in Nat /\ Len(a) \in Nat
  OBVIOUS
<1>2. ASSUME NEW k \in 1 .. Len(ms) + Len(a)
      PROVE  \/ k \in 1 .. Len(ms) /\ (ms \o a)[k] = ms[k]
             \/ k - Len(ms) \in 1 .. Len(a) /\ (ms \o a)[k] = a[k - Len(ms)]
  OBVIOUS
<1>3. DOMAIN (ms \o a) = 1 .. Len(ms) + Len(a)
  BY <1>1
<1>4. DOMAIN ms = 1 .. Len(ms) /\ DOMAIN a = 1 .. Len(a)
  OBVIOUS
<1>5. QED
  BY <1>1, <1>2, <1>3, <1>4
LEMMA TickOfMasterInv ==
    ASSUME SceneInv, NEW vote \in Choices \cup {NoVote}, TickOfMaster(vote)
    PROVE  SceneInv' /\ KeepsColors
<1> DEFINE all == playerData[Master]
           data == Completed
           voted == IF vote = NoVote THEN data ELSE SetVote(data, Master, vote)
           a == IF Missing # {} THEN <<PlayerData(data)>> ELSE <<>>
           b == IF vote # NoVote THEN <<PlayerData(voted)>> ELSE <<>>
<1>1. /\ TypeOK /\ ColorsOK /\ VotersOK
      /\ Master < joined /\ Master \notin stopped /\ netPlayers[Master] # {}
      /\ Cardinality(Missing) <= colorsLeft
      /\ colorsLeft' = colorsLeft - Cardinality(Missing)
      /\ playerData' = [playerData EXCEPT ![Master] = voted]
      /\ up' = [up EXCEPT ![Master] = @ \o a \o b]
      /\ UNCHANGED <<joined, inbox, netPlayers, stopped>>
  BY DEF SceneInv, TickOfMaster, InTick, Running, netVars
<1>2. /\ data \in PlayerDatas
      /\ DOMAIN data = DOMAIN all \cup Missing
      /\ \A p \in DOMAIN all : data[p] = all[p]
      /\ Handed(data, colorsLeft') /\ colorsLeft' \in Colors
  BY <1>1, CompletedData DEF ColorsOK
<1> HIDE DEF data
<1>3. /\ voted \in PlayerDatas
      /\ NoMoreColors(data, voted)
      /\ DOMAIN voted \subseteq DOMAIN data \cup {Master}
  <2>1. CASE vote = NoVote
    BY <1>2, <2>1 DEF NoMoreColors
  <2>2. CASE vote # NoVote
    <3>1. vote \in Choices
      BY <2>2
    <3>2. QED
      BY <1>2, <2>2, <3>1, AddsNoColors, MasterPlays
  <2>3. QED
    BY <2>1, <2>2
<1> HIDE DEF voted
<1>4. Handed(voted, colorsLeft')
  BY <1>2, <1>3, SameColors
<1>5. \A d \in Players : playerData'[d] = IF d = Master THEN voted ELSE playerData[d]
  BY <1>1 DEF TypeOK
<1>6. playerData'[Master] = voted
  BY <1>5, MasterPlays
<1>7. KeepsColors
  <2>1. ASSUME NEW p \in DOMAIN all
        PROVE  p \in DOMAIN voted /\ voted[p].color = all[p].color
    BY <1>2, <1>3 DEF NoMoreColors
  <2>2. QED
    BY <1>6, <2>1 DEF KeepsColors
<1>8. /\ PlayerData(data) \in Messages /\ PlayerData(voted) \in Messages
      /\ MessageShown(PlayerData(data), voted) /\ MessageShown(PlayerData(voted), voted)
  <2>1. Shown(data, voted) /\ Shown(voted, voted)
    BY <1>3 DEF Shown, NoMoreColors
  <2>2. QED
    BY <1>2, <1>3, <2>1 DEF Messages, PlayerData, MessageShown
<1>9. /\ a \in Seq(Messages) /\ b \in Seq(Messages)
      /\ \A j \in DOMAIN a : MessageShown(a[j], voted)
      /\ \A j \in DOMAIN b : MessageShown(b[j], voted)
  <2> DEFINE m == PlayerData(data)
             n == PlayerData(voted)
  <2>1. \A x \in Messages : /\ <<x>> \in Seq(Messages)
                            /\ \A j \in DOMAIN <<x>> : <<x>>[j] = x
    OBVIOUS
  <2>2. <<>> \in Seq(Messages) /\ \A j \in DOMAIN <<>> : FALSE
    OBVIOUS
  <2>3. a = <<m>> \/ a = <<>>
    OBVIOUS
  <2>4. b = <<n>> \/ b = <<>>
    OBVIOUS
  <2>5. m \in Messages /\ n \in Messages /\ MessageShown(m, voted) /\ MessageShown(n, voted)
    BY <1>8
  <2> HIDE DEF a, b, m, n
  <2>6. QED
    BY <2>1, <2>2, <2>3, <2>4, <2>5
<1> HIDE DEF a, b
<1>10. ASSUME NEW d \in Players
       PROVE  /\ up[d] \in Seq(Messages)
              /\ up'[d] = IF d = Master THEN (up[Master] \o a) \o b ELSE up[d]
  BY <1>1 DEF TypeOK
<1>11. /\ up[Master] \o a \in Seq(Messages)
       /\ (up[Master] \o a) \o b \in Seq(Messages)
  BY <1>9, <1>10, AllAppended, MasterPlays
<1>12. TypeOK'
  <2>1. up' \in [Players -> Seq(Messages)]
    BY <1>1, <1>11 DEF TypeOK
  <2>2. playerData' \in [Players -> PlayerDatas]
    BY <1>1, <1>3 DEF TypeOK
  <2>3. QED
    BY <1>1, <1>2, <2>1, <2>2 DEF TypeOK
<1>13. ShownNext
  <2>1. ASSUME NEW d \in Players, NEW k \in DOMAIN up'[d]
        PROVE  \/ \E j \in DOMAIN up[d] : up'[d][k] = up[d][j]
               \/ MessageShown(up'[d][k], playerData'[Master])
    <3>1. CASE d # Master
      BY <1>10, <3>1
    <3>2. CASE d = Master
      <4> DEFINE ms == up[Master]
                 more == ms \o a
      <4>1. up'[d] = more \o b
        BY <1>10, <3>2
      <4>2. ms \in Seq(Messages) /\ more \in Seq(Messages)
        BY <1>10, <1>11, MasterPlays
      <4> HIDE DEF ms
      <4>3. \A i \in DOMAIN more : \/ \E j \in DOMAIN ms : more[i] = ms[j]
                                   \/ \E j \in DOMAIN a : more[i] = a[j]
        BY <1>9, <4>2, AllAppended
      <4> HIDE DEF more
      <4>4. \A i \in DOMAIN (more \o b) : \/ \E j \in DOMAIN more : (more \o b)[i] = more[j]
                                          \/ \E j \in DOMAIN b : (more \o b)[i] = b[j]
        <5>1. b \in Seq(Messages)
          BY <1>9
        <5>2. QED
          BY <4>2, <5>1, AllAppended
      <4>5. \/ \E j \in DOMAIN ms : up'[d][k] = ms[j]
            \/ MessageShown(up'[d][k], voted)
        BY <1>9, <4>1, <4>3, <4>4
      <4>6. QED
        BY <1>6, <3>2, <4>5 DEF ms
    <3>3. QED
      BY <3>1, <3>2
  <2>2. QED
    BY <1>1, <2>1 DEF ShownNext
<1>14. ColorsOK'
  <2>1. \A d \in Players : \/ playerData'[d] = playerData[d]
                           \/ Shown(playerData'[d], playerData'[Master])
    BY <1>5, <1>6 DEF Shown
  <2>2. QED
    BY <1>1, <1>4, <1>6, <1>7, <1>13, <2>1, ColorsStep
<1>15. VotersOK'
  <2>1. \A d \in Players : up'[d] # <<>> => up[d] # <<>> \/ d < joined
    BY <1>1, <1>10
  <2>2. Master \in netPlayers[Master]
    <3>1. netPlayers[Master] \in Lists
      BY <1>1, MasterPlays DEF TypeOK
    <3>2. QED
      BY <3>1 DEF Lists, Players, Master
  <2>3. DOMAIN voted \subseteq netPlayers[Master]
    BY <1>1, <1>2, <1>3, <2>2 DEF VotersOK, Missing
  <2>4. QED
    BY <1>1, <1>6, <2>1, <2>3, VotersStep
<1>16. QED
  BY <1>7, <1>12, <1>14, <1>15 DEF SceneInv
-----------------------------------------------------------------------------
(* The invariant of the scene                                              *)

LEMMA SceneStep ==
    ASSUME SceneInv, [Next]_vars
    PROVE  SceneInv' /\ KeepsColors
<1>1. ASSUME SceneInv', playerData'[Master] = playerData[Master]
      PROVE  SceneInv' /\ KeepsColors
  BY <1>1 DEF KeepsColors
<1>2. CASE Join
  BY <1>1, <1>2, JoinInv DEF Join
<1>3. ASSUME NEW c \in Players, Relay(c)
      PROVE  SceneInv' /\ KeepsColors
  BY <1>1, <1>3, RelayInv DEF Relay
<1>4. ASSUME NEW c \in Players, Stop(c)
      PROVE  SceneInv' /\ KeepsColors
  BY <1>1, <1>4, StopInv DEF Stop
<1>5. ASSUME NEW c \in Players, VoteTooEarly(c) \/ DrawFails(c)
      PROVE  SceneInv' /\ KeepsColors
  BY <1>4, <1>5 DEF VoteTooEarly, DrawFails
<1>6. CASE RunOutOfColors \/ NobodyPlays
  BY <1>4, <1>6, MasterPlays DEF RunOutOfColors, NobodyPlays
<1>7. ASSUME NEW c \in Players, Tick(c)
      PROVE  SceneInv' /\ KeepsColors
  BY <1>6, <1>7, ProcessEventInv, TickOfMasterInv DEF Tick
<1>8. CASE VotePressed
  <2>1. PICK vote \in Choices : TickOfMaster(vote) \/ \E c \in Players : VoteOfOther(c, vote)
    BY <1>8 DEF VotePressed, Choices
  <2>2. CASE TickOfMaster(vote)
    BY <2>2, TickOfMasterInv
  <2>3. ASSUME NEW c \in Players, VoteOfOther(c, vote)
        PROVE  SceneInv' /\ KeepsColors
    <3>1. playerData'[Master] = playerData[Master]
      BY <2>3, MasterPlays DEF SceneInv, TypeOK, VoteOfOther
    <3>2. QED
      BY <1>1, <2>3, <3>1, VoteOfOtherInv
  <2>4. QED
    BY <2>1, <2>2, <2>3
<1>9. CASE UNCHANGED vars
  <2>1. UNCHANGED <<joined, up, inbox, netPlayers, playerData, colorsLeft, stopped>>
    BY <1>9 DEF vars
  <2>2. SceneInv'
    BY <2>1 DEF SceneInv, TypeOK, ColorsOK, VotersOK
  <2>3. QED
    BY <1>1, <2>1, <2>2
<1>10. QED
  BY <1>2, <1>3, <1>5, <1>7, <1>8, <1>9 DEF Next

\* The inductive invariant of the scene holds in every reachable state.
THEOREM SceneInvariance == Spec => []SceneInv
<1>1. SceneInv /\ [Next]_vars => SceneInv'
  BY SceneStep
<1>2. QED
  BY <1>1, SceneInitInv, PTL DEF Spec

\* On no client two players have the same colour, whatever has arrived there:
\* the master takes every colour out of the list it gives from, and the others
\* have theirs from the master.
THEOREM ColorsAreDistinct == Spec => []ColorsDistinct
<1>1. ASSUME SceneInv PROVE ColorsDistinct
  <2> SUFFICES ASSUME NEW c \in Players,
                      NEW p \in DOMAIN playerData[c], NEW q \in DOMAIN playerData[c],
                      p # q, playerData[c][p].color # NoColor
               PROVE  playerData[c][p].color # playerData[c][q].color
    BY DEF ColorsDistinct
  <2> DEFINE all == playerData[Master]
  <2>1. p \in DOMAIN all /\ playerData[c][p].color = all[p].color
    BY <1>1 DEF SceneInv, ColorsOK, Shown
  <2>2. CASE playerData[c][q].color = NoColor
    BY <2>2
  <2>3. CASE playerData[c][q].color # NoColor
    <3>1. q \in DOMAIN all /\ playerData[c][q].color = all[q].color
      BY <1>1, <2>3 DEF SceneInv, ColorsOK, Shown
    <3>2. all[q].color # all[p].color
      BY <1>1, <2>1, <3>1 DEF SceneInv, ColorsOK, Handed
    <3>3. QED
      BY <2>1, <3>1, <3>2
  <2>4. QED
    BY <2>2, <2>3
<1>2. QED
  BY <1>1, SceneInvariance, PTL

\* Once a client has shown a player in a colour every client shows him in that
\* colour or in none, whichever of the master's messages overtakes a vote.
THEOREM ColorsAreKept == Spec => ColorsStay
<1>1. ASSUME SceneInv, [Next]_vars
      PROVE  [\A c, d \in Players :
                 \A p \in DOMAIN playerData[c] \cap DOMAIN playerData'[d] :
                     playerData[c][p].color # NoColor /\ playerData'[d][p].color # NoColor =>
                         playerData[c][p].color = playerData'[d][p].color]_vars
  <2> SUFFICES ASSUME NEW c \in Players, NEW d \in Players,
                      NEW p \in DOMAIN playerData[c] \cap DOMAIN playerData'[d],
                      playerData[c][p].color # NoColor, playerData'[d][p].color # NoColor
               PROVE  playerData[c][p].color = playerData'[d][p].color
    OBVIOUS
  <2>1. SceneInv' /\ KeepsColors
    BY <1>1, SceneStep
  <2>2. /\ p \in DOMAIN playerData[Master]
        /\ playerData[c][p].color = playerData[Master][p].color
    BY <1>1 DEF SceneInv, ColorsOK, Shown
  <2>3. playerData'[d][p].color = playerData'[Master][p].color
    BY <2>1 DEF SceneInv, ColorsOK, Shown
  <2>4. playerData'[Master][p].color = playerData[Master][p].color
    BY <2>1, <2>2 DEF KeepsColors
  <2>5. QED
    BY <2>2, <2>3, <2>4
<1>2. QED
  BY <1>1, SceneInvariance, PTL DEF Spec, ColorsStay
-----------------------------------------------------------------------------
(* The start button                                                        *)

\* Sets that are as large as the one they are part of.
LEMMA TwoParts ==
    ASSUME NEW S, IsFiniteSet(S), NEW T, NEW U, T \subseteq S, U \subseteq S, T \cap U = {},
           Cardinality(T) + Cardinality(U) >= Cardinality(S)
    PROVE  T \cup U = S
<1>1. IsFiniteSet(T) /\ IsFiniteSet(U) /\ IsFiniteSet(T \cup U)
  BY FS_Subset, FS_Union
<1>2. /\ Cardinality(T) \in Nat /\ Cardinality(U) \in Nat /\ Cardinality(S) \in Nat
      /\ Cardinality(T \cup U) \in Nat
  BY <1>1, FS_CardinalityType
<1>3. Cardinality(T \cup U) = Cardinality(T) + Cardinality(U)
  <2>1. Cardinality(T \cap U) = 0
    BY FS_EmptySet
  <2>2. Cardinality(T \cup U) = Cardinality(T) + Cardinality(U) - Cardinality(T \cap U)
    BY <1>1, FS_Union
  <2>3. QED
    BY <1>2, <2>1, <2>2
<1>4. Cardinality(T \cup U) <= Cardinality(S)
      /\ (Cardinality(S) = Cardinality(T \cup U) => S = T \cup U)
  BY FS_Subset
<1>5. QED
  BY <1>2, <1>3, <1>4

\* When the master finds that everybody has voted everybody has, although it
\* counts only those who want the first game or none.
LEMMA FinishedMeansAgreed ==
    ASSUME SceneInv, Master \notin stopped, Cardinality(Missing) <= colorsLeft,
           VoteFinished(Completed, netPlayers[Master])
    PROVE  Agreed(playerData[Master], netPlayers[Master])
<1> DEFINE all == playerData[Master]
           ps == netPlayers[Master]
           data == Completed
           first == PlayersByVote(data, 1)
           watch == PlayersByVote(data, 0)
<1>1. TypeOK /\ ColorsOK /\ DOMAIN all \subseteq ps
  BY DEF SceneInv, VotersOK
<1>2. /\ DOMAIN data = DOMAIN all \cup Missing
      /\ \A p \in DOMAIN all : data[p] = all[p]
  BY <1>1, CompletedData DEF ColorsOK
<1>3. \A p \in Missing : data[p].vote = NoVote
  BY DEF Completed
<1> HIDE DEF data
<1>4. DOMAIN data = ps
  BY <1>1, <1>2 DEF Missing
<1>5. IsFiniteSet(ps)
  <2>1. IsFiniteSet(Players)
    BY SceneAssumption, FS_Interval DEF Players
  <2>2. ps \subseteq Players
    <3>1. ps \in Lists \cup {{}}
      BY <1>1, MasterPlays DEF TypeOK
    <3>2. QED
      BY <3>1, SceneAssumption DEF Lists, Players
  <2>3. QED
    BY <2>1, <2>2, FS_Subset
<1>6. /\ Cardinality(first) + Cardinality(watch) >= Cardinality(ps)
      /\ \E g \in DOMAIN Games :
            /\ \A other \in DOMAIN Games : VotesFor(data, other) > 0 => other = g
            /\ VotesFor(data, g) \in Games[g].minPlayers .. Games[g].maxPlayers
  BY DEF VoteFinished, TotalVotes, VotesFor, data
<1>7. first \cup watch = ps
  <2>1. first \subseteq ps /\ watch \subseteq ps /\ first \cap watch = {}
    BY <1>4 DEF PlayersByVote
  <2> HIDE DEF first, watch, ps
  <2>2. QED
    BY <1>5, <1>6, <2>1, TwoParts
<1>8. \A p \in ps : data[p].vote = 1 \/ data[p].vote = 0
  BY <1>4, <1>7 DEF PlayersByVote
<1>9. \A p \in ps : p \in DOMAIN all /\ all[p] = data[p]
  <2>1. Missing = {}
    <3>1. Missing \subseteq ps
      BY DEF Missing
    <3>2. QED
      BY <1>3, <1>8, <3>1 DEF NoVote
  <2>2. QED
    BY <1>2, <1>4, <2>1
<1>10. {p \in ps \cap DOMAIN all : all[p].vote # 0} = first
  <2>1. ps \cap DOMAIN all = ps
    BY <1>9
  <2>2. \A p \in ps : all[p].vote # 0 <=> data[p].vote = 1
    BY <1>8, <1>9
  <2>3. QED
    BY <1>4, <2>1, <2>2 DEF PlayersByVote
<1>11. \A p \in ps : p \in DOMAIN all /\ all[p].vote # NoVote
  BY <1>8, <1>9 DEF NoVote
<1>12. \E g \in DOMAIN Games :
           /\ \A p \in first : all[p].vote = g
           /\ Cardinality(first) \in Games[g].minPlayers .. Games[g].maxPlayers
  <2>1. PICK g \in DOMAIN Games :
            /\ \A other \in DOMAIN Games : VotesFor(data, other) > 0 => other = g
            /\ VotesFor(data, g) \in Games[g].minPlayers .. Games[g].maxPlayers
    BY <1>6
  <2>2. \A p \in first : all[p].vote = 1
    BY <1>4, <1>9 DEF PlayersByVote
  <2>3. CASE g = 1
    BY <2>1, <2>2, <2>3 DEF VotesFor
  <2>4. CASE g = 2
    <3>1. IsFiniteSet(first) /\ Cardinality(first) \in Nat
      <4>1. first \subseteq ps
        BY <1>7
      <4>2. QED
        BY <1>5, <4>1, FS_Subset, FS_CardinalityType
    <3>2. Cardinality(first) = 0
      <4>1. ~(VotesFor(data, 1) > 0)
        BY <2>1, <2>4, ChoicesNat
      <4>2. QED
        BY <3>1, <4>1 DEF VotesFor
    <3>3. first = {}
      BY <3>1, <3>2, FS_EmptySet
    <3>4. PlayersByVote(data, g) = {}
      BY <1>4, <1>8, <2>4 DEF PlayersByVote
    <3>5. Cardinality(first) = VotesFor(data, g)
      BY <3>3, <3>4 DEF VotesFor
    <3>6. QED
      BY <2>1, <3>3, <3>5
  <2>5. QED
    BY <2>3, <2>4, ChoicesNat
<1>13. QED
  BY <1>10, <1>11, <1>12 DEF Agreed

\* The start button appears only when all players the master knows of have voted
\* and agree on a game for so many, whatever voteFinished adds up.
THEOREM StartMeansAgreed == Spec => StartIsAgreed
<1>1. ASSUME SceneInv, [Next]_vars
      PROVE  [~showStart /\ showStart' =>
                 Agreed(playerData[Master], netPlayers[Master])]_vars
  <2> SUFFICES ASSUME ~showStart, showStart'
               PROVE  Agreed(playerData[Master], netPlayers[Master])
    OBVIOUS
  <2>1. ASSUME NEW vote, TickOfMaster(vote)
        PROVE  Agreed(playerData[Master], netPlayers[Master])
    <3>1. /\ Master \notin stopped /\ Cardinality(Missing) <= colorsLeft
          /\ showStart' = VoteFinished(Completed, netPlayers[Master])
      BY <2>1 DEF TickOfMaster, InTick, Running
    <3>2. VoteFinished(Completed, netPlayers[Master])
      BY <3>1
    <3>3. QED
      BY <1>1, <3>1, <3>2, FinishedMeansAgreed
  <2>2. ASSUME NEW c \in Players, Stop(c) \/ Relay(c) \/ ProcessEvent(c) PROVE FALSE
    BY <2>2 DEF Stop, Relay, ProcessEvent
  <2>3. ASSUME NEW c \in Players, NEW vote, VoteOfOther(c, vote) PROVE FALSE
    BY <2>3 DEF VoteOfOther
  <2>4. ~Join /\ ~UNCHANGED vars
    BY DEF Join, vars
  <2>5. ASSUME NEW c \in Players, Tick(c)
        PROVE  Agreed(playerData[Master], netPlayers[Master])
    BY <2>1, <2>2, <2>5, MasterPlays DEF Tick, RunOutOfColors, NobodyPlays
  <2>6. QED
    BY <1>1, <2>1, <2>2, <2>3, <2>4, <2>5 DEF Next, VoteTooEarly, DrawFails, VotePressed
<1>2. QED
  BY <1>1, SceneInvariance, PTL DEF Spec, StartIsAgreed
=============================================================================
