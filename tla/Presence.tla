------------------------------ MODULE Presence ------------------------------
(***************************************************************************)
(* Who is in which session: presenceBySession, the entry and the tail of   *)
(* the join_room handler, and the disconnecting handler.  A user may be    *)
(* connected with several sockets, a socket may change its room, and a     *)
(* join_room handler goes on when its socket is gone.                      *)
(*                                                                         *)
(* The checks of join_room and the waits between entering the room and     *)
(* registering are one step each; SessionLifecycle has their detail.       *)
(***************************************************************************)
EXTENDS Naturals, FiniteSets

CONSTANTS
  Sockets,  \* socket ids; Socket.IO never uses one twice
  Keys,     \* userKeyOf: "<role>:<userId>"
  KeyOf,    \* the key of each socket
  Rooms,    \* sessions
  MaxJoins  \* bound: join_room handlers in flight

ASSUME PresenceAssumption ==
  /\ KeyOf \in [Sockets -> Keys]
  /\ "none" \notin Sockets \cup Rooms
  /\ MaxJoins \in Nat

VARIABLES
  link,      \* a socket's connection: "new", "up" or "gone"
  roomOf,    \* socket.data.roomId
  joins,     \* join_room handlers in flight: [socket, room, at]
  presence,  \* presenceBySession; a room without a map has no entry
  served,    \* history: <<socket, room>> whose join_room came to its end
  dropped    \* history: those that registered in a map already dropped

vars == <<link, roomOf, joins, presence, served, dropped>>

None == "none"
NoOne == [k \in Keys |-> None]

Join(s, r, at) == [socket |-> s, room |-> r, at |-> at]

Init ==
  /\ link = [s \in Sockets |-> "new"]
  /\ roomOf = [s \in Sockets |-> None]
  /\ joins = {}
  /\ presence = [r \in Rooms |-> NoOne]
  /\ served = {} /\ dropped = {}

Connect(s) ==
  /\ link[s] = "new"
  /\ link' = [link EXCEPT ![s] = "up"]
  /\ UNCHANGED <<roomOf, joins, presence, served, dropped>>

-----------------------------------------------------------------------------
(* join_room *)

JoinStart(s, r) ==
  /\ link[s] = "up" /\ Cardinality(joins) < MaxJoins
  /\ joins' = joins \cup {Join(s, r, "check")}
  /\ UNCHANGED <<link, roomOf, presence, served, dropped>>

\* No session, an archived one, another class or another material.
JoinRefused(s, r) ==
  /\ Join(s, r, "check") \in joins
  /\ joins' = joins \ {Join(s, r, "check")}
  /\ UNCHANGED <<link, roomOf, presence, served, dropped>>

\* The socket leaves its room for the new one; the presence of the room it
\* leaves keeps its entry.  On a closed socket only socket.data changes.
JoinEnter(s, r) ==
  /\ Join(s, r, "check") \in joins
  /\ joins' = (joins \ {Join(s, r, "check")}) \cup {Join(s, r, "tail")}
  /\ roomOf' = [roomOf EXCEPT ![s] = r]
  /\ UNCHANGED <<link, presence, served, dropped>>

\* Mutant: whoever is registered under the key is taken away.
WithoutAny(s) ==
  LET r == roomOf[s] IN
  IF r # None THEN [presence EXCEPT ![r][KeyOf[s]] = None] ELSE presence

\* What the disconnecting handler of s leaves of presenceBySession: it looks
\* in the room the socket is in now and takes away its own entry only.
Without(s) ==
  LET r == roomOf[s] IN
  IF r # None /\ presence[r][KeyOf[s]] = s
    THEN [presence EXCEPT ![r][KeyOf[s]] = None]
    ELSE presence

\* The socket that a registration of s in r disconnects.
Kicked(s, r) ==
  LET old == presence[r][KeyOf[s]] IN
  IF old \notin {None, s} /\ link[old] = "up" THEN {old} ELSE {}

\* The map s registers in was dropped from presenceBySession while s held it:
\* the disconnecting handler of the kicked socket emptied it.
MapDropped(s, r) ==
  \E old \in Kicked(s, r) : roomOf[old] = r /\ \A k \in Keys \ {KeyOf[s]} : presence[r][k] = None

\* Mutant: the old socket is only forgotten, not disconnected.
RegisterOver(s, r) ==
  /\ Join(s, r, "tail") \in joins
  /\ joins' = joins \ {Join(s, r, "tail")}
  /\ presence' = [presence EXCEPT ![r][KeyOf[s]] = s]
  /\ served' = served \cup {<<s, r>>}
  /\ UNCHANGED <<link, roomOf, dropped>>

\* Mutant: what is stored under the key is the key.
RegisterKey(s, r) ==
  /\ Join(s, r, "tail") \in joins
  /\ joins' = joins \ {Join(s, r, "tail")}
  /\ presence' = [presence EXCEPT ![r][KeyOf[s]] = KeyOf[s]]
  /\ served' = served \cup {<<s, r>>}
  /\ UNCHANGED <<link, roomOf, dropped>>

\* The end of the handler runs without a wait: fetch the room's map, disconnect
\* the old socket of the same user (its disconnecting handler runs inside that
\* call), register, send the list.
JoinRegister(s, r) ==
  LET left == IF Kicked(s, r) = {} THEN presence ELSE Without(presence[r][KeyOf[s]]) IN
  /\ Join(s, r, "tail") \in joins
  /\ joins' = joins \ {Join(s, r, "tail")}
  /\ link' = [o \in Sockets |-> IF o \in Kicked(s, r) THEN "gone" ELSE link[o]]
  /\ IF MapDropped(s, r)
       THEN presence' = left /\ dropped' = dropped \cup {<<s, r>>}
       ELSE presence' = [left EXCEPT ![r][KeyOf[s]] = s] /\ UNCHANGED dropped
  /\ served' = served \cup {<<s, r>>}
  /\ UNCHANGED roomOf

-----------------------------------------------------------------------------
Disconnect(s) ==
  /\ link[s] = "up"
  /\ link' = [link EXCEPT ![s] = "gone"]
  /\ presence' = Without(s)
  /\ UNCHANGED <<roomOf, joins, served, dropped>>

Next ==
  \/ \E s \in Sockets : Connect(s) \/ Disconnect(s)
  \/ \E s \in Sockets, r \in Rooms :
       JoinStart(s, r) \/ JoinRefused(s, r) \/ JoinEnter(s, r) \/ JoinRegister(s, r)

Spec == Init /\ [][Next]_vars

-----------------------------------------------------------------------------
(* Properties *)

JoinPhases == {"check", "tail"}

TypeOK ==
  /\ link \in [Sockets -> {"new", "up", "gone"}]
  /\ roomOf \in [Sockets -> Rooms \cup {None}]
  /\ joins \subseteq [socket : Sockets, room : Rooms, at : JoinPhases]
  /\ presence \in [Rooms -> [Keys -> Sockets \cup {None}]]
  /\ served \subseteq Sockets \X Rooms /\ dropped \subseteq served

\* A socket that is connected, has its join_room behind it and is still in the
\* room is the one the room lists for its user, whichever sockets of the user
\* come and go meanwhile, unless it registered in a dropped map.
Listed ==
  \A s \in Sockets :
    link[s] = "up" /\ <<s, roomOf[s]>> \in served \ dropped
      => presence[roomOf[s]][KeyOf[s]] = s

\* An entry that vanishes was the entry of a socket that is disconnected: the
\* late disconnect of an old socket never takes the user off the list.
OldSocketTakesNothing ==
  [][\A r \in Rooms, k \in Keys :
       presence[r][k] # None /\ presence'[r][k] = None => link'[presence[r][k]] = "gone"]_vars
=============================================================================
