-------------------------- MODULE NowPlayingProofs --------------------------
(***************************************************************************)
(* Proofs that NowPlaying keeps its invariants, for all clients, players,  *)
(* items and states.                                                       *)
(*                                                                         *)
(* Every handler replaces one client, removes one or all, or switches to   *)
(* one; what is shown depends on the client shown only.  ShownIs writes it *)
(* as a function of that client's record, so that each handler is a case   *)
(* of what it does to that record.                                         *)
(***************************************************************************)
EXTENDS NowPlaying, TLAPS

PlayerRecs == [state : States \union {None}, time : 0..MaxTime, item : Items \union {None}]
ClientRecs == [active : Players \union {None},
               players : UNION {[T -> PlayerRecs] : T \in SUBSET Players}]
Directories == UNION {[S -> ClientRecs] : S \in SUBSET Clients}

\* A client a handler may leave behind.
Timed(q)  == q.state = None => q.time = 0
Good(rec) ==
    /\ rec \in ClientRecs
    /\ rec.active # None => rec.active \in DOMAIN rec.players
    /\ \A p \in DOMAIN rec.players : Timed(rec.players[p])

\* The inductive invariant: TypeOK with the fields of the records, ActiveExists and
\* ListenersAreCurrent.
Kept ==
    /\ clients \in Directories
    /\ \A c \in DOMAIN clients : Good(clients[c])
    /\ nowClient \in Clients \union {None}
    /\ told \in (Clients \union {None}) \X (Players \union {None})

Inv == Kept /\ ListenersAreCurrent

-----------------------------------------------------------------------------
(* What is shown                                                           *)

ShownPlayer(rec) == IF ActivePlayer(rec) = None THEN NewPlayer ELSE rec.players[ActivePlayer(rec)]
ShownOf(c, rec) ==
    [client |-> c, player |-> ActivePlayer(rec),
     content |-> <<ShownPlayer(rec).state, ShownPlayer(rec).item>>]
Nobody == [client |-> None, player |-> None, content |-> <<None, None>>]

\* The snapshot is that of the client shown, if it is known.
LEMMA ShownIs ==
  ASSUME NEW cs, NEW now, cs \in Directories
  PROVE  Shown(cs, now) = IF now \in DOMAIN cs THEN ShownOf(now, cs[now]) ELSE Nobody
  <1>1. None \notin DOMAIN cs
    BY PlayersAssumption DEF Directories
  <1>2. CASE now \in DOMAIN cs
    BY <1>1, <1>2 DEF Shown, ShownOf, ShownPlayer
  <1>3. CASE now \notin DOMAIN cs
    BY <1>1, <1>3 DEF Shown, Nobody, NewPlayer
  <1> QED
    BY <1>2, <1>3

\* A client's fields.
LEMMA RecFields ==
  ASSUME NEW rec \in ClientRecs
  PROVE  /\ rec = [active |-> rec.active, players |-> rec.players]
         /\ rec.active \in Players \union {None}
         /\ DOMAIN rec.players \subseteq Players
         /\ rec.players \in [DOMAIN rec.players -> PlayerRecs]
         /\ ActivePlayer(rec) \in DOMAIN rec.players \union {None}
  <1>1. /\ rec = [active |-> rec.active, players |-> rec.players]
        /\ rec.active \in Players \union {None}
        /\ rec.players \in UNION {[T -> PlayerRecs] : T \in SUBSET Players}
    BY DEF ClientRecs
  <1>2. PICK T \in SUBSET Players : rec.players \in [T -> PlayerRecs]
    BY <1>1
  <1>3. ActivePlayer(rec) \in DOMAIN rec.players \union {None}
    BY DEF ActivePlayer
  <1> QED
    BY <1>1, <1>2, <1>3

LEMMA IsRec ==
  ASSUME NEW a \in Players \union {None}, NEW T \in SUBSET Players, NEW f \in [T -> PlayerRecs]
  PROVE  [active |-> a, players |-> f] \in ClientRecs
  BY DEF ClientRecs

\* A directory with a client put in is a directory.
Put(cs, c, rec) == [d \in DOMAIN cs \union {c} |-> IF d = c THEN rec ELSE cs[d]]

LEMMA PutKept ==
  ASSUME NEW cs \in Directories, NEW c \in Clients, NEW rec, Good(rec),
         \A d \in DOMAIN cs : Good(cs[d])
  PROVE  /\ Put(cs, c, rec) \in Directories
         /\ \A d \in DOMAIN Put(cs, c, rec) : Good(Put(cs, c, rec)[d])
  <1>1. PICK S \in SUBSET Clients : cs \in [S -> ClientRecs]
    BY DEF Directories
  <1>2. Put(cs, c, rec) \in [S \union {c} -> ClientRecs]
    BY <1>1 DEF Put, Good
  <1>3. S \union {c} \in SUBSET Clients
    OBVIOUS
  <1>4. \A d \in DOMAIN Put(cs, c, rec) : Good(Put(cs, c, rec)[d])
    BY DEF Put
  <1>5. Put(cs, c, rec) \in Directories
    BY <1>2, <1>3 DEF Directories
  <1> QED
    BY <1>4, <1>5

\* ... in which any other client is shown as before.
LEMMA PutShown ==
  ASSUME NEW cs \in Directories, NEW c \in Clients, NEW rec, NEW now,
         Put(cs, c, rec) \in Directories
  PROVE  /\ now # c => Shown(Put(cs, c, rec), now) = Shown(cs, now)
         /\ Shown(Put(cs, c, rec), c) = ShownOf(c, rec)
  <1> DEFINE new == Put(cs, c, rec)
  <1>1. /\ DOMAIN new = DOMAIN cs \union {c}
        /\ new[c] = rec
        /\ \A d \in DOMAIN cs : d # c => new[d] = cs[d]
    BY DEF Put
  <1>2. Shown(new, now) = IF now \in DOMAIN new THEN ShownOf(now, new[now]) ELSE Nobody
    BY ShownIs
  <1>3. Shown(cs, now) = IF now \in DOMAIN cs THEN ShownOf(now, cs[now]) ELSE Nobody
    BY ShownIs
  <1>4. Shown(new, c) = IF c \in DOMAIN new THEN ShownOf(c, new[c]) ELSE Nobody
    BY ShownIs
  <1> HIDE DEF new
  <1>5. now # c => Shown(new, now) = Shown(cs, now)
    <2> SUFFICES ASSUME now # c PROVE Shown(new, now) = Shown(cs, now)
      OBVIOUS
    <2>1. CASE now \in DOMAIN cs
      <3>1. now \in DOMAIN new /\ new[now] = cs[now]
        BY <1>1, <2>1
      <3> QED
        BY <1>2, <1>3, <2>1, <3>1
    <2>2. CASE now \notin DOMAIN cs
      BY <1>1, <1>2, <1>3, <2>2
    <2> QED
      BY <2>1, <2>2
  <1>6. Shown(new, c) = ShownOf(c, rec)
    BY <1>1, <1>4
  <1> QED
    BY <1>5, <1>6 DEF new

-----------------------------------------------------------------------------
(* Registering clients and players                                         *)

Old(c) == IF c \in DOMAIN clients THEN clients[c] ELSE NewClient

WithPlayer(c, p) == [active |-> Old(c).active, players |-> With(Old(c).players, p, NewPlayer)]

LEMMA NewPlayerIsRec == NewPlayer \in PlayerRecs /\ Timed(NewPlayer)
  BY TimeAssumption DEF NewPlayer, PlayerRecs, Timed

LEMMA OldIsGood ==
  ASSUME Kept, NEW c \in Clients
  PROVE  Good(Old(c))
  <1>1. CASE c \in DOMAIN clients
    BY <1>1 DEF Old, Kept
  <1>2. CASE c \notin DOMAIN clients
    <2>1. NewClient.active = None /\ NewClient.players = [p \in {} |-> NewPlayer]
      BY DEF NewClient
    <2>2. NewClient \in ClientRecs
      BY NewPlayerIsRec, IsRec DEF NewClient
    <2> QED
      BY <1>2, <2>1, <2>2 DEF Old, Good
  <1> QED
    BY <1>1, <1>2

\* A client is registered by putting it in.
LEMMA ClientRegistered ==
  ASSUME Kept, NEW c \in Clients
  PROVE  With(clients, c, NewClient) = Put(clients, c, Old(c))
  BY DEF With, Put, Old

\* A player is registered, and then one of its fields is set.
LEMMA PlayerRegistered ==
  ASSUME Kept, NEW c \in Clients, NEW p \in Players
  PROVE  /\ Registered(c, p) = Put(clients, c, WithPlayer(c, p))
         /\ Good(WithPlayer(c, p))
         /\ WithPlayer(c, p).active = Old(c).active
         /\ WithPlayer(c, p).players = With(Old(c).players, p, NewPlayer)
         /\ p \in DOMAIN WithPlayer(c, p).players
  <1> DEFINE old == Old(c)
             players == With(old.players, p, NewPlayer)
             known == With(clients, c, NewClient)
  <1>1. Good(old)
    BY OldIsGood
  <1>2. /\ old = [active |-> old.active, players |-> old.players]
        /\ old.active \in Players \union {None}
        /\ DOMAIN old.players \subseteq Players
        /\ old.players \in [DOMAIN old.players -> PlayerRecs]
    BY <1>1, RecFields DEF Good
  <1>3. /\ DOMAIN players = DOMAIN old.players \union {p}
        /\ players \in [DOMAIN old.players \union {p} -> PlayerRecs]
        /\ \A q \in DOMAIN players : Timed(players[q])
    BY <1>1, <1>2, NewPlayerIsRec DEF With, Good
  <1>4. WithPlayer(c, p) \in ClientRecs
    BY <1>2, <1>3, IsRec DEF WithPlayer
  <1>5. Good(WithPlayer(c, p))
    BY <1>1, <1>3, <1>4 DEF Good, WithPlayer
  <1>6. known = [d \in DOMAIN clients \union {c} |-> IF d = c THEN old ELSE clients[d]]
    BY ClientRegistered DEF Put
  <1>7. [old EXCEPT !.players = With(@, p, NewPlayer)] = WithPlayer(c, p)
    BY <1>2 DEF WithPlayer
  <1>8. Registered(c, p) = [known EXCEPT ![c] = [old EXCEPT !.players = With(@, p, NewPlayer)]]
    BY <1>6 DEF Registered
  <1>9. Registered(c, p) = Put(clients, c, WithPlayer(c, p))
    <2> HIDE DEF old, known
    <2> QED
      BY <1>6, <1>7, <1>8 DEF Put
  <1> QED
    BY <1>3, <1>5, <1>9 DEF WithPlayer

\* A player's record is replaced.
Replaced(c, p, q)  == [Registered(c, p) EXCEPT ![c].players[p] = q]
WithRecord(c, p, q) ==
    [active |-> Old(c).active, players |-> [WithPlayer(c, p).players EXCEPT ![p] = q]]

LEMMA PlayerReplaced ==
  ASSUME Kept, NEW c \in Clients, NEW p \in Players, NEW q \in PlayerRecs, Timed(q)
  PROVE  /\ Replaced(c, p, q) = Put(clients, c, WithRecord(c, p, q))
         /\ Good(WithRecord(c, p, q))
         /\ WithRecord(c, p, q).active = Old(c).active
         /\ DOMAIN WithRecord(c, p, q).players = DOMAIN Old(c).players \union {p}
  <1> DEFINE rec == [active |-> Old(c).active, players |-> [WithPlayer(c, p).players EXCEPT ![p] = q]]
  <1> DEFINE old == WithPlayer(c, p)
             known == Registered(c, p)
             players == [old.players EXCEPT ![p] = q]
  <1>1. /\ known = Put(clients, c, old)
        /\ Good(old)
        /\ old.active = Old(c).active
        /\ old.players = With(Old(c).players, p, NewPlayer)
        /\ p \in DOMAIN old.players
    BY PlayerRegistered
  <1>2. /\ old = [active |-> old.active, players |-> old.players]
        /\ old.active \in Players \union {None}
        /\ DOMAIN old.players \subseteq Players
        /\ old.players \in [DOMAIN old.players -> PlayerRecs]
    BY <1>1, RecFields DEF Good
  <1> HIDE DEF old, known
  <1>3. /\ players \in [DOMAIN old.players -> PlayerRecs]
        /\ DOMAIN players = DOMAIN old.players
        /\ \A r \in DOMAIN players : Timed(players[r])
    BY <1>1, <1>2 DEF Good
  <1>4. rec = [active |-> old.active, players |-> players]
    BY <1>1 DEF old
  <1>5. rec \in ClientRecs
    BY <1>2, <1>3, <1>4, IsRec
  <1>6. Good(rec)
    BY <1>1, <1>3, <1>4, <1>5 DEF Good
  <1>7. [old EXCEPT !.players[p] = q] = rec
    BY <1>2, <1>4
  <1>8. [known EXCEPT ![c].players[p] = q] = [known EXCEPT ![c] = [old EXCEPT !.players[p] = q]]
    BY <1>1 DEF Put
  <1>9. [known EXCEPT ![c].players[p] = q] = Put(clients, c, rec)
    BY <1>1, <1>7, <1>8 DEF Put
  <1>10. DOMAIN rec.players = DOMAIN Old(c).players \union {p}
    BY <1>1, <1>3, <1>4 DEF With
  <1> QED
    BY <1>1, <1>4, <1>6, <1>9, <1>10 DEF known, Replaced, WithRecord

-----------------------------------------------------------------------------
(* What the listeners know                                                 *)

\* More is shown: a client or player where there was none.
NamesGrow(old, new) ==
    /\ old.client # None => new.client = old.client
    /\ old.player # None => new.player = old.player

\* A step that tells the listeners what changes, or changes nothing they were told.
LEMMA ListenersStep ==
  ASSUME ListenersAreCurrent,
         NEW new, new = Shown(clients', nowClient'),
         \/ snapshot' = new
         \/ UNCHANGED snapshot /\ new.content = Current.content /\ NamesGrow(Current, new),
         \/ told' = <<new.client, new.player>>
         \/ UNCHANGED told /\ NamesGrow(Current, new)
  PROVE  ListenersAreCurrent'
  <1>1. Current' = new
    BY DEF Current
  <1>2. snapshot' # None =>
            /\ snapshot'.content = new.content
            /\ snapshot'.client # None => snapshot'.client = new.client
            /\ snapshot'.player # None => snapshot'.player = new.player
    BY DEF ListenersAreCurrent, NamesGrow
  <1>3. /\ told'[1] # None => told'[1] = new.client
        /\ told'[2] # None => told'[2] = new.player
    BY DEF ListenersAreCurrent, NamesGrow
  <1> QED
    BY <1>1, <1>2, <1>3 DEF ListenersAreCurrent

\* The client and the player shown are among those of the constants.
LEMMA ShownNames ==
  ASSUME NEW cs \in Directories, NEW now \in Clients \union {None}
  PROVE  /\ Shown(cs, now).client \in Clients \union {None}
         /\ Shown(cs, now).player \in Players \union {None}
  <1>1. Shown(cs, now) = IF now \in DOMAIN cs THEN ShownOf(now, cs[now]) ELSE Nobody
    BY ShownIs
  <1>2. CASE now \in DOMAIN cs
    <2>1. cs[now] \in ClientRecs
      BY <1>2 DEF Directories
    <2>2. ActivePlayer(cs[now]) \in Players \union {None}
      BY <2>1, RecFields
    <2> QED
      BY <1>1, <1>2, <2>2 DEF ShownOf
  <1>3. CASE now \notin DOMAIN cs
    BY <1>1, <1>3 DEF Nobody
  <1> QED
    BY <1>2, <1>3

\* Who plays stays when players are registered.
LEMMA ActiveStays ==
  ASSUME NEW old, NEW new, Good(old), new.active = old.active,
         DOMAIN old.players \subseteq DOMAIN new.players,
         ActivePlayer(old) # None
  PROVE  ActivePlayer(new) = ActivePlayer(old)
  BY DEF ActivePlayer, Or

\* Registering a client or a player takes nothing away.
LEMMA RegisteringGrows ==
  ASSUME Kept, NEW c \in Clients, NEW rec, NEW now, Good(rec),
         rec.active = Old(c).active, DOMAIN Old(c).players \subseteq DOMAIN rec.players
  PROVE  NamesGrow(Shown(clients, now), Shown(Put(clients, c, rec), now))
  <1>1. /\ Put(clients, c, rec) \in Directories
        /\ clients \in Directories
    BY PutKept DEF Kept
  <1>2. CASE now # c
    <2>1. Shown(Put(clients, c, rec), now) = Shown(clients, now)
      BY <1>1, <1>2, PutShown
    <2> QED
      BY <2>1 DEF NamesGrow
  <1>3. CASE now = c /\ c \in DOMAIN clients
    <2>1. Shown(Put(clients, c, rec), now) = ShownOf(c, rec)
      BY <1>1, <1>3, PutShown
    <2>2. Shown(clients, now) = ShownOf(c, Old(c))
      BY <1>1, <1>3, ShownIs DEF Old
    <2>3. ActivePlayer(Old(c)) # None => ActivePlayer(rec) = ActivePlayer(Old(c))
      BY ActiveStays, OldIsGood
    <2> QED
      BY <2>1, <2>2, <2>3 DEF NamesGrow, ShownOf
  <1>4. CASE now = c /\ c \notin DOMAIN clients
    <2>1. Shown(clients, now) = Nobody
      BY <1>1, <1>4, ShownIs
    <2> QED
      BY <2>1 DEF NamesGrow, Nobody
  <1> QED
    BY <1>2, <1>3, <1>4

\* What a new player plays is nothing.
LEMMA RegisteringIsSilent ==
  ASSUME Kept, NEW c \in Clients, NEW rec, NEW now, Good(rec),
         rec.active = Old(c).active, DOMAIN Old(c).players \subseteq DOMAIN rec.players,
         \A p \in DOMAIN rec.players :
            rec.players[p] = IF p \in DOMAIN Old(c).players THEN Old(c).players[p] ELSE NewPlayer
  PROVE  Shown(Put(clients, c, rec), now).content = Shown(clients, now).content
  <1>1. /\ Put(clients, c, rec) \in Directories
        /\ clients \in Directories
    BY PutKept DEF Kept
  <1>2. CASE now # c
    BY <1>1, <1>2, PutShown
  <1>3. CASE now = c
    <2>1. Shown(Put(clients, c, rec), now).content =
            <<ShownPlayer(rec).state, ShownPlayer(rec).item>>
      BY <1>1, <1>3, PutShown DEF ShownOf
    <2>2. Shown(clients, now).content = <<ShownPlayer(Old(c)).state, ShownPlayer(Old(c)).item>>
      <3>1. CASE c \in DOMAIN clients
        BY <1>1, <1>3, <3>1, ShownIs DEF Old, ShownOf
      <3>2. CASE c \notin DOMAIN clients
        <4>1. ShownPlayer(Old(c)) = NewPlayer
          BY <3>2, PlayersAssumption DEF ShownPlayer, ActivePlayer, Or, Old, NewClient
        <4> QED
          BY <1>1, <1>3, <3>2, <4>1, ShownIs DEF Nobody, NewPlayer
      <3> QED
        BY <3>1, <3>2
    <2>3. ShownPlayer(rec) = ShownPlayer(Old(c))
      <3>1. Good(Old(c)) /\ Old(c) \in ClientRecs /\ rec \in ClientRecs
        BY OldIsGood DEF Good
      <3>2. /\ ActivePlayer(Old(c)) \in DOMAIN Old(c).players \union {None}
            /\ DOMAIN Old(c).players \subseteq Players
            /\ ActivePlayer(rec) \in DOMAIN rec.players \union {None}
            /\ DOMAIN rec.players \subseteq Players
        BY <3>1, RecFields
      <3>3. CASE ActivePlayer(Old(c)) # None
        <4>1. ActivePlayer(rec) = ActivePlayer(Old(c))
          BY <3>1, <3>3, ActiveStays
        <4> QED
          BY <3>2, <3>3, <4>1 DEF ShownPlayer
      <3>4. CASE ActivePlayer(Old(c)) = None /\ ActivePlayer(rec) = None
        BY <3>4 DEF ShownPlayer
      <3>5. CASE ActivePlayer(Old(c)) = None /\ ActivePlayer(rec) # None
        <4>1. ActivePlayer(rec) \notin DOMAIN Old(c).players
          BY <3>1, <3>2, <3>5, PlayersAssumption DEF ActivePlayer, Or, Good
        <4> QED
          BY <3>2, <3>5, <4>1 DEF ShownPlayer
      <3> QED
        BY <3>3, <3>4, <3>5
    <2> QED
      BY <2>1, <2>2, <2>3
  <1> QED
    BY <1>2, <1>3

-----------------------------------------------------------------------------
(* The handlers                                                            *)

\* A handler that puts a client in and announces nothing, or the snapshot, or also the
\* player.  The names shown grow wherever the player is not announced.
LEMMA PutStep ==
  ASSUME Inv, NEW c \in Clients, NEW rec, Good(rec),
         clients' = Put(clients, c, rec),
         nowClient' \in Clients \union {None},
         NEW new, new = Shown(clients', nowClient'),
         \/ snapshot' = new
         \/ UNCHANGED snapshot /\ new.content = Current.content /\ NamesGrow(Current, new),
         \/ told' = <<new.client, new.player>>
         \/ UNCHANGED told /\ NamesGrow(Current, new)
  PROVE  Inv'
  <1>1. clients' \in Directories /\ \A d \in DOMAIN clients' : Good(clients'[d])
    BY PutKept DEF Inv, Kept
  <1>2. told' \in (Clients \union {None}) \X (Players \union {None})
    <2>1. new.client \in Clients \union {None} /\ new.player \in Players \union {None}
      BY <1>1, ShownNames
    <2> QED
      BY <2>1 DEF Inv, Kept
  <1>3. ListenersAreCurrent'
    BY ListenersStep DEF Inv
  <1>4. Kept'
    BY <1>1, <1>2 DEF Kept
  <1> QED
    BY <1>3, <1>4 DEF Inv

\* A handler that changes a client that is not shown announces nothing.
LEMMA ElsewhereUnchanged ==
  ASSUME Kept, NEW c \in Clients, NEW rec, Good(rec), c # nowClient
  PROVE  /\ Shown(Put(clients, c, rec), nowClient) = Current
         /\ NamesGrow(Current, Shown(Put(clients, c, rec), nowClient))
  <1>1. Shown(Put(clients, c, rec), nowClient) = Current
    BY PutKept, PutShown DEF Kept, Current
  <1> QED
    BY <1>1 DEF NamesGrow

LEMMA InitInv == Init => Inv
  <1> SUFFICES ASSUME Init PROVE Inv
    OBVIOUS
  <1>1. clients \in [{} -> ClientRecs] /\ DOMAIN clients = {}
    BY DEF Init
  <1>2. clients \in Directories
    BY <1>1 DEF Directories
  <1>3. Kept
    BY <1>1, <1>2 DEF Init, Kept
  <1>4. ListenersAreCurrent
    BY DEF Init, ListenersAreCurrent
  <1> QED
    BY <1>3, <1>4 DEF Inv

LEMMA ClearStep == ASSUME Inv, Clear PROVE Inv'
  <1>1. clients' \in [{} -> ClientRecs] /\ DOMAIN clients' = {}
    BY DEF Clear
  <1>2. clients' \in Directories
    BY <1>1 DEF Directories
  <1>3. Kept'
    BY <1>1, <1>2 DEF Clear, Kept
  <1>4. ListenersAreCurrent'
    BY DEF Clear, ListenersAreCurrent
  <1> QED
    BY <1>3, <1>4 DEF Inv

LEMMA NobodyStep == ASSUME Inv, OnSetNowPlayingNobody PROVE Inv'
  <1>1. /\ UNCHANGED <<clients, nowClient, told>>
        /\ snapshot' = Shown(clients', nowClient')
    BY DEF OnSetNowPlayingNobody, NowPlayingChangedIfNeeded
  <1>2. Shown(clients', nowClient') = Current
    BY <1>1 DEF Current
  <1>3. NamesGrow(Current, Current)
    BY DEF NamesGrow
  <1>4. ListenersAreCurrent'
    BY <1>1, <1>2, <1>3, ListenersStep DEF Inv
  <1>5. Kept'
    BY <1>1 DEF Inv, Kept
  <1> QED
    BY <1>4, <1>5 DEF Inv

LEMMA UpdateClientStep == ASSUME Inv, NEW c \in Clients, OnUpdateClient(c) PROVE Inv'
  <1> DEFINE new == Shown(clients', nowClient')
  <1>1. /\ clients' = Put(clients, c, Old(c))
        /\ UNCHANGED <<nowClient, snapshot, told>>
    BY ClientRegistered DEF Inv, OnUpdateClient
  <1>2. Good(Old(c))
    BY OldIsGood DEF Inv
  <1>3. NamesGrow(Current, new)
    BY <1>1, <1>2, RegisteringGrows DEF Inv, Current
  <1>4. new.content = Current.content
    BY <1>1, <1>2, RegisteringIsSilent DEF Inv, Current
  <1>5. nowClient' \in Clients \union {None}
    BY <1>1 DEF Inv, Kept
  <1> QED
    BY <1>1, <1>2, <1>3, <1>4, <1>5, PutStep

LEMMA UpdatePlayerStep ==
  ASSUME Inv, NEW c \in Clients, NEW p \in Players, OnUpdatePlayer(c, p) PROVE Inv'
  <1> DEFINE new == Shown(clients', nowClient')
             rec == WithPlayer(c, p)
  <1>1. /\ Registered(c, p) = Put(clients, c, rec)
        /\ Good(rec)
        /\ rec.active = Old(c).active
        /\ rec.players = With(Old(c).players, p, NewPlayer)
    BY PlayerRegistered DEF Inv
  <1>2. clients' = Put(clients, c, rec) /\ UNCHANGED <<nowClient, snapshot, told>>
    BY <1>1 DEF OnUpdatePlayer
  <1> HIDE DEF rec
  <1>3. /\ DOMAIN Old(c).players \subseteq DOMAIN rec.players
        /\ \A q \in DOMAIN rec.players :
             rec.players[q] = IF q \in DOMAIN Old(c).players THEN Old(c).players[q] ELSE NewPlayer
    BY <1>1 DEF With
  <1>4. NamesGrow(Current, new)
    BY <1>1, <1>2, <1>3, RegisteringGrows DEF Inv, Current
  <1>5. new.content = Current.content
    BY <1>1, <1>2, <1>3, RegisteringIsSilent DEF Inv, Current
  <1>6. nowClient' \in Clients \union {None}
    BY <1>2 DEF Inv, Kept
  <1> QED
    BY <1>1, <1>2, <1>4, <1>5, <1>6, PutStep

LEMMA SetNowPlayingClientStep ==
  ASSUME Inv, NEW c \in Clients \union {None}, NEW named \in BOOLEAN,
         OnSetNowPlayingClient(c, named)
  PROVE  Inv'
  <1> DEFINE new == Shown(clients', nowClient')
  <1>1. /\ nowClient' = c
        /\ snapshot' = new
        /\ IF c # nowClient THEN told' = <<new.client, new.player>> ELSE UNCHANGED told
    BY DEF OnSetNowPlayingClient, NowPlayingChangedIfNeeded, ActivePlayerChanged
  <1>2. CASE named /\ c # None
    <2>1. c \in Clients
      BY <1>2
    <2>2. clients' = Put(clients, c, Old(c))
      BY <1>2, <2>1, ClientRegistered DEF Inv, OnSetNowPlayingClient
    <2>3. Good(Old(c))
      BY <2>1, OldIsGood DEF Inv
    <2>4. c = nowClient => NamesGrow(Current, new)
      BY <1>1, <2>1, <2>2, <2>3, RegisteringGrows DEF Inv, Current
    <2> QED
      BY <1>1, <2>1, <2>2, <2>3, <2>4, PutStep
  <1>3. CASE ~(named /\ c # None)
    <2>1. clients' = clients
      BY <1>3 DEF OnSetNowPlayingClient
    <2>2. c = nowClient => NamesGrow(Current, new)
      BY <1>1, <2>1 DEF Current, NamesGrow
    <2>3. ListenersAreCurrent'
      BY <1>1, <2>2, ListenersStep DEF Inv
    <2>4. new.client \in Clients \union {None} /\ new.player \in Players \union {None}
      BY <1>1, <2>1, ShownNames DEF Inv, Kept
    <2>5. told' \in (Clients \union {None}) \X (Players \union {None})
      BY <1>1, <2>4 DEF Inv, Kept
    <2>6. Kept'
      BY <1>1, <2>1, <2>5 DEF Inv, Kept
    <2> QED
      BY <2>3, <2>6 DEF Inv
  <1> QED
    BY <1>2, <1>3

LEMMA SetNowPlayingPlayerStep ==
  ASSUME Inv, NEW c \in Clients, NEW p \in Players, OnSetNowPlayingPlayer(c, p)
  PROVE  Inv'
  <1> DEFINE new == Shown(clients', nowClient')
             old == WithPlayer(c, p)
             rec == [active |-> p, players |-> old.players]
  <1>1. /\ Registered(c, p) = Put(clients, c, old)
        /\ Good(old)
        /\ p \in DOMAIN old.players
    BY PlayerRegistered DEF Inv
  <1>2. /\ old = [active |-> old.active, players |-> old.players]
        /\ DOMAIN old.players \subseteq Players
        /\ old.players \in [DOMAIN old.players -> PlayerRecs]
    BY <1>1, RecFields DEF Good
  <1> HIDE DEF old
  <1>3. Good(rec)
    BY <1>1, <1>2, IsRec DEF Good
  <1>4. clients' = Put(clients, c, rec)
    <2>1. clients' = [Put(clients, c, old) EXCEPT ![c].active = p]
      BY <1>1 DEF OnSetNowPlayingPlayer
    <2>2. [old EXCEPT !.active = p] = rec
      BY <1>2
    <2> QED
      BY <2>1, <2>2 DEF Put
  <1>5. /\ nowClient' = nowClient
        /\ snapshot' = new
        /\ IF c \in DOMAIN clients /\ ActivePlayer(clients[c]) = p THEN UNCHANGED told
           ELSE told' = <<new.client, new.player>>
    BY DEF OnSetNowPlayingPlayer, NowPlayingChangedIfNeeded, ActivePlayerChanged
  <1>6. ASSUME c \in DOMAIN clients, ActivePlayer(clients[c]) = p PROVE NamesGrow(Current, new)
    <2>1. CASE c # nowClient
      BY <1>3, <1>4, <1>5, <2>1, ElsewhereUnchanged DEF Inv
    <2>2. CASE c = nowClient
      <3>1. new = ShownOf(c, rec)
        BY <1>3, <1>4, <1>5, <2>2, PutShown, PutKept DEF Inv, Kept
      <3>2. Current = ShownOf(c, clients[c])
        BY <1>6, <2>2, ShownIs DEF Inv, Kept, Current
      <3>3. ActivePlayer(rec) = p
        BY <1>1, PlayersAssumption DEF ActivePlayer, Or
      <3> QED
        BY <1>6, <3>1, <3>2, <3>3 DEF NamesGrow, ShownOf
    <2> QED
      BY <2>1, <2>2
  <1>7. nowClient' \in Clients \union {None}
    BY <1>5 DEF Inv, Kept
  <1> HIDE DEF rec
  <1> QED
    BY <1>3, <1>4, <1>5, <1>6, <1>7, PutStep

LEMMA RemovePlayerStep ==
  ASSUME Inv, NEW c \in Clients, NEW p \in Players \union {None}, OnRemovePlayer(c, p)
  PROVE  Inv'
  <1> DEFINE new == Shown(clients', nowClient')
             old == clients[c]
             rec == RemovePlayer(old, p)
  <1>1. /\ nowClient' = nowClient
        /\ IF c = nowClient THEN told' = <<new.client, new.player>> ELSE UNCHANGED told
        /\ IF c = nowClient THEN snapshot' = new ELSE UNCHANGED snapshot
    BY DEF OnRemovePlayer, IfShown, NowPlayingChangedIfNeeded, ActivePlayerChanged
  <1>2. CASE c \in DOMAIN clients
    <2>1. Good(old)
      BY <1>2 DEF Inv, Kept
    <2>2. /\ old.active \in Players \union {None}
          /\ DOMAIN old.players \subseteq Players
          /\ old.players \in [DOMAIN old.players -> PlayerRecs]
      BY <2>1, RecFields DEF Good
    <2>3. /\ rec.players = Less(old.players, p)
          /\ rec.active = IF old.active = p THEN None ELSE old.active
          /\ rec = [active |-> rec.active, players |-> rec.players]
      BY DEF RemovePlayer
    <2> HIDE DEF old, rec
    <2>4. /\ DOMAIN rec.players = DOMAIN old.players \ {p}
          /\ rec.players \in [DOMAIN old.players \ {p} -> PlayerRecs]
          /\ \A q \in DOMAIN rec.players : rec.players[q] = old.players[q]
      BY <2>2, <2>3 DEF Less
    <2>5. rec \in ClientRecs
      BY <2>2, <2>3, <2>4, IsRec
    <2>6. Good(rec)
      BY <2>1, <2>3, <2>4, <2>5 DEF Good
    <2>7. clients' = Put(clients, c, rec)
      <3>1. clients' = [clients EXCEPT ![c] = rec]
        BY <1>2 DEF OnRemovePlayer, old, rec
      <3>2. DOMAIN clients \union {c} = DOMAIN clients
        BY <1>2
      <3>3. PICK S \in SUBSET Clients : clients \in [S -> ClientRecs]
        BY DEF Inv, Kept, Directories
      <3> QED
        BY <3>1, <3>2, <3>3 DEF Put
    <2>8. c # nowClient => new = Current /\ NamesGrow(Current, new)
      BY <1>1, <2>6, <2>7, ElsewhereUnchanged DEF Inv
    <2>9. nowClient' \in Clients \union {None}
      BY <1>1 DEF Inv, Kept
    <2>10. \/ snapshot' = new
           \/ UNCHANGED snapshot /\ new.content = Current.content /\ NamesGrow(Current, new)
      BY <1>1, <2>8
    <2>11. \/ told' = <<new.client, new.player>>
           \/ UNCHANGED told /\ NamesGrow(Current, new)
      BY <1>1, <2>8
    <2> QED
      BY <2>6, <2>7, <2>9, <2>10, <2>11, PutStep
  <1>3. CASE c \notin DOMAIN clients
    <2>1. clients' = clients
      BY <1>3 DEF OnRemovePlayer
    <2>2. new = Current /\ NamesGrow(Current, new)
      BY <1>1, <2>1 DEF Current, NamesGrow
    <2>3. ListenersAreCurrent'
      BY <1>1, <2>2, ListenersStep DEF Inv
    <2>4. new.client \in Clients \union {None} /\ new.player \in Players \union {None}
      BY <1>1, <2>1, ShownNames DEF Inv, Kept
    <2>5. told' \in (Clients \union {None}) \X (Players \union {None})
      BY <1>1, <2>4 DEF Inv, Kept
    <2>6. Kept'
      BY <1>1, <2>1, <2>5 DEF Inv, Kept
    <2> QED
      BY <2>3, <2>6 DEF Inv
  <1> QED
    BY <1>2, <1>3

\* Another client than the one shown may go unnoticed.
LEMMA RemoveClientStep ==
  ASSUME Inv, NEW c \in Clients, OnRemoveClient(c)
  PROVE  Inv'
  <1> DEFINE new == Shown(clients', nowClient')
  <1>1. PICK S \in SUBSET Clients : clients \in [S -> ClientRecs]
    BY DEF Inv, Kept, Directories
  <1>2. /\ clients' \in [S \ {c} -> ClientRecs]
        /\ \A d \in S \ {c} : clients'[d] = clients[d]
    BY <1>1 DEF OnRemoveClient, Less
  <1>3. clients' \in Directories /\ clients \in Directories
    BY <1>2 DEF Directories, Inv, Kept
  <1>4. \A d \in DOMAIN clients' : Good(clients'[d])
    BY <1>1, <1>2 DEF Inv, Kept
  <1>5. /\ nowClient' \in Clients \union {None}
        /\ c = nowClient => snapshot' = new /\ told' = <<new.client, new.player>>
        /\ c # nowClient => UNCHANGED <<nowClient, snapshot, told>>
    BY DEF OnRemoveClient, NowPlayingChangedIfNeeded, ActivePlayerChanged, Inv, Kept
  <1>6. c # nowClient => new = Current /\ NamesGrow(Current, new)
    <2> SUFFICES ASSUME c # nowClient PROVE new = Current
      BY DEF NamesGrow
    <2>1. new = IF nowClient \in DOMAIN clients' THEN ShownOf(nowClient, clients'[nowClient]) ELSE Nobody
      BY <1>3, <1>5, ShownIs
    <2>2. Current = IF nowClient \in DOMAIN clients THEN ShownOf(nowClient, clients[nowClient]) ELSE Nobody
      BY <1>3, ShownIs DEF Current
    <2>3. nowClient \in DOMAIN clients' <=> nowClient \in DOMAIN clients
      BY <1>1, <1>2
    <2>4. nowClient \in DOMAIN clients => clients'[nowClient] = clients[nowClient]
      BY <1>1, <1>2
    <2> HIDE DEF new
    <2> QED
      BY <2>1, <2>2, <2>3, <2>4
  <1>7. new.client \in Clients \union {None} /\ new.player \in Players \union {None}
    BY <1>3, <1>5, ShownNames
  <1> HIDE DEF new
  <1>8. told' \in (Clients \union {None}) \X (Players \union {None})
    BY <1>5, <1>7 DEF Inv, Kept
  <1>9. ListenersAreCurrent'
    BY <1>5, <1>6, ListenersStep DEF Inv, new
  <1>10. Kept'
    BY <1>3, <1>4, <1>5, <1>8 DEF Kept
  <1> QED
    BY <1>9, <1>10 DEF Inv

\* Of a player that is set to a state, or amended, only its record changes.
LEMMA ReplacedStep ==
  ASSUME Inv, NEW c \in Clients, NEW p \in Players, NEW q \in PlayerRecs, Timed(q),
         clients' = Replaced(c, p, q),
         UNCHANGED <<nowClient, told>>,
         IfShown(c)
  PROVE  Inv'
  <1> DEFINE new == Shown(clients', nowClient')
             rec == WithRecord(c, p, q)
  <1>1. /\ clients' = Put(clients, c, rec)
        /\ Good(rec)
        /\ rec.active = Old(c).active
        /\ DOMAIN rec.players = DOMAIN Old(c).players \union {p}
    BY PlayerReplaced DEF Inv
  <1> HIDE DEF rec
  <1>2. IF c = nowClient THEN snapshot' = new ELSE UNCHANGED snapshot
    BY DEF IfShown, NowPlayingChangedIfNeeded
  <1>3. NamesGrow(Current, new)
    BY <1>1, RegisteringGrows DEF Inv, Current
  <1>4. c # nowClient => new.content = Current.content
    BY <1>1, ElsewhereUnchanged DEF Inv
  <1>5. nowClient' \in Clients \union {None}
    BY DEF Inv, Kept
  <1>6. \/ snapshot' = new
        \/ UNCHANGED snapshot /\ new.content = Current.content /\ NamesGrow(Current, new)
    BY <1>2, <1>3, <1>4
  <1>7. UNCHANGED told /\ NamesGrow(Current, new)
    BY <1>3
  <1> QED
    BY <1>1, <1>5, <1>6, <1>7, PutStep

LEMMA PlayerOfRegistered ==
  ASSUME Inv, NEW c \in Clients, NEW p \in Players
  PROVE  /\ Registered(c, p)[c].players[p] = WithPlayer(c, p).players[p]
         /\ WithPlayer(c, p).players[p] \in PlayerRecs
         /\ Timed(WithPlayer(c, p).players[p])
  <1> DEFINE old == WithPlayer(c, p)
  <1>1. /\ Registered(c, p) = Put(clients, c, old)
        /\ Good(old)
        /\ p \in DOMAIN old.players
    BY PlayerRegistered DEF Inv
  <1>2. old.players \in [DOMAIN old.players -> PlayerRecs]
    BY <1>1, RecFields DEF Good
  <1>3. Registered(c, p)[c] = old
    BY <1>1 DEF Put
  <1> QED
    BY <1>1, <1>2, <1>3 DEF Good

LEMMA SetStateStep ==
  ASSUME Inv, NEW c \in Clients, NEW p \in Players, NEW item \in Items \union {None},
         NEW state \in States \union {None}, NEW time \in 0..MaxTime,
         OnSetState(c, p, state, time, item)
  PROVE  Inv'
  <1> DEFINE old == WithPlayer(c, p).players[p]
             stated == SetPlaybackState(old, state, time)
             q == [stated EXCEPT !.item = Or(item, @)]
  <1>1. /\ Registered(c, p)[c].players[p] = old
        /\ old \in PlayerRecs
        /\ Timed(old)
    BY PlayerOfRegistered
  <1>2. clients' = Replaced(c, p, q)
    BY <1>1 DEF OnSetState, Replaced
  <1> HIDE DEF old
  <1>3. stated \in PlayerRecs /\ Timed(stated)
    BY <1>1, ValuesAssumption DEF SetPlaybackState, PlayerRecs, Timed
  <1> HIDE DEF stated
  <1>4. q \in PlayerRecs /\ Timed(q)
    BY <1>3 DEF PlayerRecs, Timed, Or
  <1>5. UNCHANGED <<nowClient, told>> /\ IfShown(c)
    BY DEF OnSetState
  <1> HIDE DEF q
  <1> QED
    BY <1>2, <1>4, <1>5, ReplacedStep

LEMMA UpdateContentItemStep ==
  ASSUME Inv, NEW c \in Clients, NEW p \in Players, NEW item \in Items \union {None},
         OnUpdateContentItem(c, p, item)
  PROVE  Inv'
  <1> DEFINE old == WithPlayer(c, p).players[p]
             q == [old EXCEPT !.item = IF @ = None THEN None ELSE Or(item, @)]
  <1>1. /\ Registered(c, p)[c].players[p] = old
        /\ old \in PlayerRecs
        /\ Timed(old)
    BY PlayerOfRegistered
  <1>2. clients' = Replaced(c, p, q)
    <2>1. clients' = [Registered(c, p) EXCEPT ![c].players[p].item =
                        IF @ = None THEN None ELSE Or(item, @)]
      BY DEF OnUpdateContentItem
    <2> QED
      BY <1>1, <2>1 DEF Replaced
  <1> HIDE DEF old
  <1>3. q \in PlayerRecs /\ Timed(q)
    BY <1>1 DEF PlayerRecs, Timed, Or
  <1>4. UNCHANGED <<nowClient, told>> /\ IfShown(c)
    BY DEF OnUpdateContentItem
  <1> HIDE DEF q
  <1> QED
    BY <1>2, <1>3, <1>4, ReplacedStep

-----------------------------------------------------------------------------
(* The theorems                                                            *)

LEMMA Step == Inv /\ [Next]_vars => Inv'
  <1> SUFFICES ASSUME Inv, [Next]_vars PROVE Inv'
    OBVIOUS
  <1>1. CASE UNCHANGED vars
    <2>1. Kept'
      BY <1>1 DEF Inv, Kept, vars
    <2>2. ListenersAreCurrent'
      BY <1>1 DEF Inv, ListenersAreCurrent, Current, vars
    <2> QED
      BY <2>1, <2>2 DEF Inv
  <1>2. CASE Clear
    BY <1>2, ClearStep
  <1>3. CASE OnSetNowPlayingNobody
    BY <1>3, NobodyStep
  <1>4. ASSUME NEW c \in Clients,
               \/ OnUpdateClient(c) \/ OnRemoveClient(c)
               \/ \E p \in Players \union {None} : OnRemovePlayer(c, p)
        PROVE  Inv'
    BY <1>4, UpdateClientStep, RemoveClientStep, RemovePlayerStep
  <1>5. ASSUME NEW c \in Clients \union {None}, NEW named \in BOOLEAN, OnSetNowPlayingClient(c, named)
        PROVE  Inv'
    BY <1>5, SetNowPlayingClientStep
  <1>6. ASSUME NEW c \in Clients, NEW p \in Players,
               OnSetNowPlayingPlayer(c, p) \/ OnUpdatePlayer(c, p)
        PROVE  Inv'
    BY <1>6, SetNowPlayingPlayerStep, UpdatePlayerStep
  <1>7. ASSUME NEW c \in Clients, NEW p \in Players, NEW item \in Items \union {None},
               OnUpdateContentItem(c, p, item)
        PROVE  Inv'
    BY <1>7, UpdateContentItemStep
  <1>8. ASSUME NEW c \in Clients, NEW p \in Players, NEW item \in Items \union {None},
               NEW state \in States \union {None}, NEW time \in 0..MaxTime,
               OnSetState(c, p, state, time, item)
        PROVE  Inv'
    BY <1>8, SetStateStep
  <1> QED
    BY <1>1, <1>2, <1>3, <1>4, <1>5, <1>6, <1>7, <1>8 DEF Next

\* The strengthened invariant holds always.
THEOREM Invariance == Spec => []Inv
  BY InitInv, Step, PTL DEF Spec

\* The variables keep their shape for any clients, players and items (the fields of
\* AirPlayState, AirPlayClient and AirPlayPlayer).
THEOREM TypeCorrect == Spec => []TypeOK
  <1>1. Kept => TypeOK
    <2> SUFFICES ASSUME Kept PROVE TypeOK
      OBVIOUS
    <2>1. DOMAIN clients \subseteq Clients
      BY DEF Kept, Directories
    <2>2. ASSUME NEW c \in DOMAIN clients
          PROVE  /\ clients[c].active \in Players \union {None}
                 /\ DOMAIN clients[c].players \subseteq Players
                 /\ \A p \in DOMAIN clients[c].players : PlayerOK(clients[c].players[p])
      <3>1. Good(clients[c]) /\ clients[c] \in ClientRecs
        BY DEF Kept, Good
      <3>2. /\ clients[c].active \in Players \union {None}
            /\ DOMAIN clients[c].players \subseteq Players
            /\ clients[c].players \in [DOMAIN clients[c].players -> PlayerRecs]
        BY <3>1, RecFields
      <3> QED
        BY <3>1, <3>2 DEF Good, PlayerOK, PlayerRecs, Timed
    <2> QED
      BY <2>1, <2>2 DEF Kept, TypeOK
  <1>2. Inv => TypeOK
    BY <1>1 DEF Inv
  <1> QED
    BY <1>2, Invariance, PTL

\* A client never points at a player that was removed (removePlayer()).
THEOREM NoDanglingPlayer == Spec => []ActiveExists
  <1>1. Inv => ActiveExists
    BY DEF Inv, Kept, Good, ActiveExists
  <1> QED
    BY <1>1, Invariance, PTL

\* The two events never leave the listeners with an outdated client, player or content,
\* whatever messages come and in whatever order (the handlers of airplay-state.ts).
THEOREM ListenersKnow == Spec => []ListenersAreCurrent
  <1>1. Inv => ListenersAreCurrent
    BY DEF Inv
  <1> QED
    BY <1>1, Invariance, PTL
=============================================================================
