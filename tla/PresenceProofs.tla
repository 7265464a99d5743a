--------------------------- MODULE PresenceProofs ---------------------------
(* What is proved of Presence for any number of users, sockets and rooms. *)
EXTENDS Presence, TLAPS

-----------------------------------------------------------------------------
(* The disconnecting handler *)

\* The disconnecting handler of a socket takes away entries of that socket only.
LEMMA WithoutTakesOwn ==
  ASSUME TypeOK, NEW o \in Sockets, NEW r \in Rooms, NEW k \in Keys
  PROVE  \/ Without(o)[r][k] = presence[r][k]
         \/ presence[r][k] = o /\ Without(o)[r][k] = None
BY DEF Without, TypeOK, None

\* It leaves a map of sockets for every room.
LEMMA WithoutType ==
  ASSUME TypeOK, NEW o \in Sockets
  PROVE  Without(o) \in [Rooms -> [Keys -> Sockets \cup {None}]]
BY DEF Without, TypeOK, None

\* A registration disconnects the socket registered under the key, if any, and
\* this is another socket.
LEMMA KickedIsOld ==
  ASSUME TypeOK, NEW s \in Sockets, NEW r \in Rooms, Kicked(s, r) # {}
  PROVE  /\ presence[r][KeyOf[s]] \in Sockets \ {s}
         /\ Kicked(s, r) = {presence[r][KeyOf[s]]}
<1>1. presence[r][KeyOf[s]] \in Sockets \cup {None}
  BY PresenceAssumption DEF TypeOK
<1>2. QED BY <1>1 DEF Kicked

-----------------------------------------------------------------------------
(* Type correctness *)

\* Before the first connection every variable has its type.
LEMMA InitType == Init => TypeOK
BY DEF Init, TypeOK, NoOne, None

\* A registration keeps the types, whether or not it disconnects a socket.
LEMMA RegisterType ==
  ASSUME TypeOK, NEW s \in Sockets, NEW r \in Rooms, JoinRegister(s, r)
  PROVE  TypeOK'
<1> DEFINE left == IF Kicked(s, r) = {} THEN presence ELSE Without(presence[r][KeyOf[s]])
<1>1. left \in [Rooms -> [Keys -> Sockets \cup {None}]]
  BY KickedIsOld, WithoutType DEF TypeOK
<1>2. [left EXCEPT ![r][KeyOf[s]] = s] \in [Rooms -> [Keys -> Sockets \cup {None}]]
  BY <1>1, PresenceAssumption
<1>3. presence' \in [Rooms -> [Keys -> Sockets \cup {None}]]
  <2>1. presence' = left \/ presence' = [left EXCEPT ![r][KeyOf[s]] = s]
    BY DEF JoinRegister
  <2>2. QED BY <1>1, <1>2, <2>1
<1>4. link' \in [Sockets -> {"new", "up", "gone"}]
  BY DEF JoinRegister, TypeOK
<1>5. served' \subseteq Sockets \X Rooms /\ dropped' \subseteq served'
  BY DEF JoinRegister, TypeOK
<1>6. roomOf' = roomOf /\ joins' \subseteq joins
  BY DEF JoinRegister
<1>7. QED BY <1>3, <1>4, <1>5, <1>6 DEF TypeOK

\* No step of a socket or of a join handler leaves the types.
LEMMA NextType == TypeOK /\ [Next]_vars => TypeOK'
<1> SUFFICES ASSUME TypeOK, [Next]_vars PROVE TypeOK'
  OBVIOUS
<1>1. ASSUME NEW s \in Sockets, Connect(s) PROVE TypeOK'
  BY <1>1 DEF Connect, TypeOK
<1>2. ASSUME NEW s \in Sockets, Disconnect(s) PROVE TypeOK'
  BY <1>2, WithoutType DEF Disconnect, TypeOK
<1>3. ASSUME NEW s \in Sockets, NEW r \in Rooms, JoinStart(s, r) PROVE TypeOK'
  BY <1>3 DEF JoinStart, Join, TypeOK, JoinPhases
<1>4. ASSUME NEW s \in Sockets, NEW r \in Rooms, JoinRefused(s, r) PROVE TypeOK'
  BY <1>4 DEF JoinRefused, TypeOK
<1>5. ASSUME NEW s \in Sockets, NEW r \in Rooms, JoinEnter(s, r) PROVE TypeOK'
  BY <1>5 DEF JoinEnter, Join, TypeOK, JoinPhases
<1>6. ASSUME NEW s \in Sockets, NEW r \in Rooms, JoinRegister(s, r) PROVE TypeOK'
  BY <1>6, RegisterType
<1>7. CASE UNCHANGED vars
  BY <1>7 DEF vars, TypeOK
<1>8. QED BY <1>1, <1>2, <1>3, <1>4, <1>5, <1>6, <1>7 DEF Next

\* Every variable of the presence keeps its type.
THEOREM TypeCorrect == Spec => []TypeOK
BY InitType, NextType, PTL DEF Spec

-----------------------------------------------------------------------------
(* The list *)

\* Listed speaks of the room a socket is in now; a socket that moves on keeps
\* its entries in the rooms behind it, and may come back to one of them.
ListedEverywhere ==
  \A s \in Sockets, r \in Rooms :
    link[s] = "up" /\ <<s, r>> \in served \ dropped => presence[r][KeyOf[s]] = s

\* A socket that has not connected has no join handler, and none behind it.
NewHasNotJoined ==
  /\ \A j \in joins : link[j.socket] # "new"
  /\ \A s \in Sockets, r \in Rooms : <<s, r>> \in served => link[s] # "new"

\* The inductive invariant of presenceBySession.
PresenceInv == TypeOK /\ NewHasNotJoined /\ ListedEverywhere

\* A socket joins only after it has connected.
LEMMA NextNew == TypeOK /\ NewHasNotJoined /\ [Next]_vars => NewHasNotJoined'
<1> SUFFICES ASSUME TypeOK, NewHasNotJoined, [Next]_vars PROVE NewHasNotJoined'
  OBVIOUS
<1>1. ASSUME NEW s \in Sockets, Connect(s) PROVE NewHasNotJoined'
  BY <1>1 DEF Connect, TypeOK, NewHasNotJoined
<1>2. ASSUME NEW s \in Sockets, Disconnect(s) PROVE NewHasNotJoined'
  BY <1>2 DEF Disconnect, TypeOK, NewHasNotJoined
<1>3. ASSUME NEW s \in Sockets, NEW r \in Rooms, JoinStart(s, r) PROVE NewHasNotJoined'
  BY <1>3 DEF JoinStart, Join, NewHasNotJoined
<1>4. ASSUME NEW s \in Sockets, NEW r \in Rooms, JoinRefused(s, r) PROVE NewHasNotJoined'
  BY <1>4 DEF JoinRefused, NewHasNotJoined
<1>5. ASSUME NEW s \in Sockets, NEW r \in Rooms, JoinEnter(s, r) PROVE NewHasNotJoined'
  BY <1>5 DEF JoinEnter, Join, NewHasNotJoined
<1>6. ASSUME NEW s \in Sockets, NEW r \in Rooms, JoinRegister(s, r) PROVE NewHasNotJoined'
  <2>1. link[s] # "new"
    BY <1>6 DEF JoinRegister, Join, NewHasNotJoined
  <2>2. \A o \in Sockets : link[o] # "new" => link'[o] # "new"
    BY <1>6 DEF JoinRegister
  <2>3. joins' \subseteq joins /\ served' = served \cup {<<s, r>>}
    BY <1>6 DEF JoinRegister
  <2>4. QED BY <2>1, <2>2, <2>3 DEF NewHasNotJoined, TypeOK
<1>7. CASE UNCHANGED vars
  BY <1>7 DEF vars, NewHasNotJoined
<1>8. QED BY <1>1, <1>2, <1>3, <1>4, <1>5, <1>6, <1>7 DEF Next

\* A registration takes nobody off a list but the socket it disconnects.
LEMMA RegisterLists ==
  ASSUME PresenceInv, NEW s \in Sockets, NEW r \in Rooms, JoinRegister(s, r)
  PROVE  ListedEverywhere'
<1> DEFINE left == IF Kicked(s, r) = {} THEN presence ELSE Without(presence[r][KeyOf[s]])
<1>0. TypeOK
  BY DEF PresenceInv
<1>1. left \in [Rooms -> [Keys -> Sockets \cup {None}]]
  BY <1>0, KickedIsOld, WithoutType DEF TypeOK
<1> SUFFICES ASSUME NEW t \in Sockets, NEW q \in Rooms, link'[t] = "up", <<t, q>> \in served' \ dropped'
             PROVE  presence'[q][KeyOf[t]] = t
  BY DEF ListedEverywhere
<1>2. link[t] = "up" /\ t \notin Kicked(s, r)
  BY <1>0 DEF JoinRegister, TypeOK
<1>3. KeyOf[t] \in Keys /\ KeyOf[s] \in Keys
  BY PresenceAssumption
<1>4. CASE t = s /\ q = r
  <2>1. ~MapDropped(s, r)
    BY <1>4 DEF JoinRegister
  <2>2. presence' = [left EXCEPT ![r][KeyOf[s]] = s]
    BY <2>1 DEF JoinRegister
  <2>3. QED BY <1>1, <1>3, <1>4, <2>2
<1>5. CASE ~(t = s /\ q = r)
  <2>1. <<t, q>> \in served \ dropped
    BY <1>5 DEF JoinRegister
  <2>2. presence[q][KeyOf[t]] = t
    BY <1>2, <2>1 DEF PresenceInv, ListedEverywhere
  <2>3. left[q][KeyOf[t]] = t
    <3>1. CASE Kicked(s, r) = {}
      BY <2>2, <3>1
    <3>2. CASE Kicked(s, r) # {}
      <4>1. presence[r][KeyOf[s]] \in Sockets /\ presence[r][KeyOf[s]] # t
        BY <1>0, <1>2, <3>2, KickedIsOld
      <4>2. Without(presence[r][KeyOf[s]])[q][KeyOf[t]] = presence[q][KeyOf[t]]
        BY <1>0, <1>3, <2>2, <4>1, WithoutTakesOwn
      <4>3. QED BY <2>2, <3>2, <4>2
    <3>3. QED BY <3>1, <3>2
  <2>4. ~(q = r /\ KeyOf[t] = KeyOf[s])
    <3>1. ASSUME q = r, KeyOf[t] = KeyOf[s] PROVE FALSE
      <4>1. t # s /\ presence[r][KeyOf[s]] = t
        BY <1>5, <2>2, <3>1
      <4>2. t # None
        BY PresenceAssumption DEF None
      <4>3. t \in Kicked(s, r)
        BY <1>2, <4>1, <4>2 DEF Kicked
      <4>4. QED BY <1>2, <4>3
    <3>2. QED BY <3>1
  <2>5. presence' = left \/ presence' = [left EXCEPT ![r][KeyOf[s]] = s]
    BY DEF JoinRegister
  <2>6. QED BY <1>1, <1>3, <2>3, <2>4, <2>5
<1>6. QED BY <1>4, <1>5

\* Every step keeps whoever has joined on the lists.
LEMMA NextLists == PresenceInv /\ [Next]_vars => PresenceInv'
<1> SUFFICES ASSUME PresenceInv, [Next]_vars PROVE ListedEverywhere'
  BY NextType, NextNew DEF PresenceInv
<1>0. TypeOK /\ NewHasNotJoined /\ ListedEverywhere
  BY DEF PresenceInv
<1>1. ASSUME NEW s \in Sockets, Connect(s) PROVE ListedEverywhere'
  <2>1. \A o \in Sockets : link'[o] = "up" => link[o] = "up" \/ o = s
    BY <1>0, <1>1 DEF Connect, TypeOK
  <2>2. \A r \in Rooms : <<s, r>> \notin served
    BY <1>0, <1>1 DEF Connect, NewHasNotJoined
  <2>3. UNCHANGED <<presence, served, dropped>>
    BY <1>1 DEF Connect
  <2>4. QED BY <1>0, <2>1, <2>2, <2>3 DEF ListedEverywhere
<1>2. ASSUME NEW s \in Sockets, Disconnect(s) PROVE ListedEverywhere'
  <2> SUFFICES ASSUME NEW t \in Sockets, NEW q \in Rooms,
                      link'[t] = "up", <<t, q>> \in served' \ dropped'
               PROVE  presence'[q][KeyOf[t]] = t
    BY DEF ListedEverywhere
  <2>1. t # s /\ link[t] = "up"
    BY <1>0, <1>2 DEF Disconnect, TypeOK
  <2>2. presence[q][KeyOf[t]] = t /\ presence' = Without(s)
    BY <1>0, <1>2, <2>1 DEF Disconnect, ListedEverywhere
  <2>3. KeyOf[t] \in Keys
    BY PresenceAssumption
  <2>4. QED BY <1>0, <2>1, <2>2, <2>3, WithoutTakesOwn
<1>3. ASSUME NEW s \in Sockets, NEW r \in Rooms,
             JoinStart(s, r) \/ JoinRefused(s, r) \/ JoinEnter(s, r)
      PROVE  ListedEverywhere'
  BY <1>0, <1>3 DEF JoinStart, JoinRefused, JoinEnter, ListedEverywhere
<1>4. ASSUME NEW s \in Sockets, NEW r \in Rooms, JoinRegister(s, r) PROVE ListedEverywhere'
  BY <1>4, RegisterLists
<1>5. CASE UNCHANGED vars
  BY <1>0, <1>5 DEF vars, ListedEverywhere
<1>6. QED BY <1>1, <1>2, <1>3, <1>4, <1>5 DEF Next

\* The invariant of the presence always holds.
THEOREM PresenceCorrect == Spec => []PresenceInv
<1>1. Init => PresenceInv
  BY InitType DEF Init, PresenceInv, NewHasNotJoined, ListedEverywhere
<1>2. QED BY <1>1, NextLists, PTL DEF Spec

\* Whoever has joined a room and is connected is on the list of the room,
\* whichever sockets of the user come and go.
THEOREM JoinedIsListed == Spec => []Listed
<1>1. PresenceInv => Listed
  <2> SUFFICES ASSUME PresenceInv, NEW s \in Sockets, link[s] = "up",
                      <<s, roomOf[s]>> \in served \ dropped
               PROVE  presence[roomOf[s]][KeyOf[s]] = s
    BY DEF Listed
  <2>1. roomOf[s] \in Rooms
    BY DEF PresenceInv, TypeOK
  <2>2. QED BY <2>1 DEF PresenceInv, ListedEverywhere
<1>2. QED BY <1>1, PresenceCorrect, PTL

-----------------------------------------------------------------------------
(* The late disconnect *)

\* What one step may do to the lists.
NothingTaken ==
  \A r \in Rooms, k \in Keys :
    presence[r][k] # None /\ presence'[r][k] = None => link'[presence[r][k]] = "gone"

\* A registration empties an entry only when it cuts off the socket in it.
LEMMA RegisterTakesNothing ==
  ASSUME TypeOK, NEW s \in Sockets, NEW r \in Rooms, JoinRegister(s, r)
  PROVE  NothingTaken
<1> DEFINE left == IF Kicked(s, r) = {} THEN presence ELSE Without(presence[r][KeyOf[s]])
<1> SUFFICES ASSUME NEW q \in Rooms, NEW k \in Keys, presence[q][k] # None, presence'[q][k] = None
             PROVE  link'[presence[q][k]] = "gone"
  BY DEF NothingTaken
<1>1. left \in [Rooms -> [Keys -> Sockets \cup {None}]]
  BY KickedIsOld, WithoutType DEF TypeOK
<1>2. presence' = left \/ presence' = [left EXCEPT ![r][KeyOf[s]] = s]
  BY DEF JoinRegister
<1>3. s # None /\ KeyOf[s] \in Keys
  BY PresenceAssumption DEF None
<1>4. left[q][k] = None
  BY <1>1, <1>2, <1>3
<1>5. Kicked(s, r) # {}
  BY <1>4
<1>6. presence[q][k] \in Kicked(s, r)
  <2>1. presence[r][KeyOf[s]] \in Sockets /\ Kicked(s, r) = {presence[r][KeyOf[s]]}
    BY <1>5, KickedIsOld
  <2>2. Without(presence[r][KeyOf[s]])[q][k] = None
    BY <1>4, <1>5
  <2>3. QED BY <2>1, <2>2, WithoutTakesOwn
<1>7. presence[q][k] \in Sockets
  BY DEF TypeOK
<1>8. QED BY <1>6, <1>7 DEF JoinRegister

\* No disconnect and no registration takes the entry of a socket that stays:
\* the late disconnect of an old socket leaves the user on the list.
THEOREM OldTakesNothing == Spec => OldSocketTakesNothing
<1>1. TypeOK /\ [Next]_vars => [NothingTaken]_vars
  <2> SUFFICES ASSUME TypeOK, Next PROVE NothingTaken
    OBVIOUS
  <2>1. ASSUME NEW s \in Sockets, Connect(s) PROVE NothingTaken
    BY <2>1 DEF Connect, NothingTaken
  <2>2. ASSUME NEW s \in Sockets, Disconnect(s) PROVE NothingTaken
    <3>1. presence' = Without(s) /\ link'[s] = "gone"
      BY <2>2 DEF Disconnect, TypeOK
    <3>2. QED BY <3>1, WithoutTakesOwn DEF NothingTaken
  <2>3. ASSUME NEW s \in Sockets, NEW r \in Rooms,
               JoinStart(s, r) \/ JoinRefused(s, r) \/ JoinEnter(s, r)
        PROVE  NothingTaken
    BY <2>3 DEF JoinStart, JoinRefused, JoinEnter, NothingTaken
  <2>4. ASSUME NEW s \in Sockets, NEW r \in Rooms, JoinRegister(s, r) PROVE NothingTaken
    BY <2>4, RegisterTakesNothing
  <2>5. QED BY <2>1, <2>2, <2>3, <2>4 DEF Next
<1>2. QED BY <1>1, TypeCorrect, PTL DEF Spec, OldSocketTakesNothing, NothingTaken

=============================================================================
