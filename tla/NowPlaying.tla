----------------------------- MODULE NowPlaying -----------------------------
(***************************************************************************)
(* What plays on an AirPlay device: sdk/src/internal/airplay-state.ts with *)
(* its clients (apps, airplay-client.ts) and their players                 *)
(* (airplay-player.ts).  The device describes both piecemeal, in messages  *)
(* of which several create what they mention; the state announces what     *)
(* plays with two events, of which one compares snapshots.                 *)
(*                                                                         *)
(* The fields of a snapshot are those of the player shown: the playback    *)
(* state, which has a timestamp, and the item, which stands for the rest:  *)
(* later messages replace it (now-playing info, supported commands, queue) *)
(* or amend it if there is one.                                            *)
(***************************************************************************)
EXTENDS Integers

CONSTANTS
    Clients,       \* bundle identifiers
    Players,       \* player identifiers
    DefaultPlayer, \* DEFAULT_PLAYER_ID
    States,        \* playback states other than Unknown
    Items,         \* what a player plays
    None,          \* null, or a field that is not in the message
    MaxTime        \* bound: playback state timestamps

ASSUME PlayersAssumption == DefaultPlayer \in Players /\ None \notin Clients \union Players
ASSUME ValuesAssumption == None \notin States \union Items
ASSUME TimeAssumption == MaxTime \in Nat

VARIABLES
    clients,   \* #clients: the active player and the players of each known client
    nowClient, \* #nowPlayingClientBundleIdentifier, of a client that may be unknown
    snapshot,  \* #nowPlayingSnapshot
    (* History variable, which no action reads.                             *)
    told       \* client and player of the last activePlayerChanged

vars == <<clients, nowClient, snapshot, told>>

-----------------------------------------------------------------------------
(* AirPlayClient and AirPlayPlayer                                         *)

\* The playback state Unknown is None as well.
NewPlayer == [state |-> None, time |-> 0, item |-> None]
NewClient == [active |-> None, players |-> [p \in {} |-> NewPlayer]]

With(f, x, new) == [y \in DOMAIN f \union {x} |-> IF y \in DOMAIN f THEN f[y] ELSE new]
Less(f, x)      == [y \in DOMAIN f \ {x} |-> f[y]]

\* getOrCreatePlayer() of the client #client() returns.
Registered(c, p) ==
    LET known == With(clients, c, NewClient)
    IN [known EXCEPT ![c].players = With(@, p, NewPlayer)]

\* An older state than the one shown is ignored.
BugTimeAlone(player, state, time) ==
    IF time < player.time THEN player
    ELSE [player EXCEPT !.state = IF state = None THEN @ ELSE state, !.time = time]

SetPlaybackState(player, state, time) ==
    IF state = None \/ time < player.time THEN player
    ELSE [player EXCEPT !.state = state, !.time = time]

Or(field, old) == IF field = None THEN old ELSE field

BugActiveKept(client, p) == [client EXCEPT !.players = Less(@, p)]

RemovePlayer(client, p) ==
    [players |-> Less(client.players, p),
     active  |-> IF client.active = p THEN None ELSE client.active]

ActivePlayer(client) ==
    LET p == Or(client.active, DefaultPlayer) IN IF p \in DOMAIN client.players THEN p ELSE None

-----------------------------------------------------------------------------
(* What is shown, and the two events                                       *)

Shown(cs, now) ==
    LET c == IF now \in DOMAIN cs THEN now ELSE None
        p == IF c = None THEN None ELSE ActivePlayer(cs[c])
        q == IF p = None THEN NewPlayer ELSE cs[c].players[p]
    IN [client |-> c, player |-> p, content |-> <<q.state, q.item>>]

Current == Shown(clients, nowClient)

\* #emitNowPlayingChangedIfNeeded(): an equal snapshot is not announced again.
NowPlayingChangedIfNeeded == snapshot' = Shown(clients', nowClient')

ActivePlayerChanged ==
    told' = <<Shown(clients', nowClient').client, Shown(clients', nowClient').player>>

Init ==
    /\ clients = [c \in {} |-> NewClient]
    /\ nowClient = None
    /\ snapshot = None
    /\ told = <<None, None>>

-----------------------------------------------------------------------------
(* The handlers                                                            *)

\* clear(), when a session is set up: nothing is announced.
Clear ==
    /\ clients' = [c \in {} |-> NewClient]
    /\ nowClient' = None
    /\ snapshot' = None
    /\ told' = <<None, None>>

\* onUpdateClient() and onSetDefaultSupportedCommands(): the client is registered.
OnUpdateClient(c) ==
    /\ clients' = With(clients, c, NewClient)
    /\ UNCHANGED <<nowClient, snapshot, told>>

OnRemoveClient(c) ==
    /\ c \in DOMAIN clients
    /\ clients' = Less(clients, c)
    /\ IF c = nowClient
       THEN nowClient' = None /\ ActivePlayerChanged /\ NowPlayingChangedIfNeeded
       ELSE UNCHANGED <<nowClient, snapshot, told>>

\* Without a display name the client is not registered; without a client nothing plays.
OnSetNowPlayingClient(c, named) ==
    /\ nowClient' = c
    /\ clients' = IF named /\ c # None THEN With(clients, c, NewClient) ELSE clients
    /\ IF c # nowClient THEN ActivePlayerChanged ELSE UNCHANGED told
    /\ NowPlayingChangedIfNeeded

BugSwitchUnannounced(c, p) ==
    /\ clients' = [Registered(c, p) EXCEPT ![c].active = p]
    /\ UNCHANGED <<nowClient, told>>
    /\ NowPlayingChangedIfNeeded

OnSetNowPlayingPlayer(c, p) ==
    /\ clients' = [Registered(c, p) EXCEPT ![c].active = p]
    /\ UNCHANGED nowClient
    /\ IF c \in DOMAIN clients /\ ActivePlayer(clients[c]) = p THEN UNCHANGED told
       ELSE ActivePlayerChanged
    /\ NowPlayingChangedIfNeeded

\* The message names no player.
OnSetNowPlayingNobody ==
    /\ UNCHANGED <<clients, nowClient, told>>
    /\ NowPlayingChangedIfNeeded

\* Of a client that is not shown nothing is announced.
IfShown(c) == IF c = nowClient THEN NowPlayingChangedIfNeeded ELSE UNCHANGED snapshot

\* Each field may be missing.
OnSetState(c, p, state, time, item) ==
    /\ LET known   == Registered(c, p)
           stated  == SetPlaybackState(known[c].players[p], state, time)
       IN clients' = [known EXCEPT ![c].players[p] =
                        [stated EXCEPT !.item = Or(item, @)]]
    /\ UNCHANGED <<nowClient, told>>
    /\ IfShown(c)

\* onUpdateContentItem() and onUpdateContentItemArtwork() amend what the player plays, if it
\* plays something; None stands for items that are not in its queue.
OnUpdateContentItem(c, p, item) ==
    /\ LET known == Registered(c, p)
       IN clients' = [known EXCEPT ![c].players[p].item = IF @ = None THEN None ELSE Or(item, @)]
    /\ UNCHANGED <<nowClient, told>>
    /\ IfShown(c)

OnUpdatePlayer(c, p) ==
    /\ clients' = Registered(c, p)
    /\ UNCHANGED <<nowClient, snapshot, told>>

\* The message may name no player.
OnRemovePlayer(c, p) ==
    /\ clients' = IF c \in DOMAIN clients THEN [clients EXCEPT ![c] = RemovePlayer(@, p)]
                                          ELSE clients
    /\ UNCHANGED nowClient
    /\ IF c = nowClient THEN ActivePlayerChanged ELSE UNCHANGED told
    /\ IfShown(c)

Next ==
    \/ Clear \/ OnSetNowPlayingNobody
    \/ \E c \in Clients :
        \/ OnUpdateClient(c) \/ OnRemoveClient(c)
        \/ \E p \in Players \union {None} : OnRemovePlayer(c, p)
    \/ \E c \in Clients \union {None}, named \in BOOLEAN : OnSetNowPlayingClient(c, named)
    \/ \E c \in Clients, p \in Players :
        \/ OnSetNowPlayingPlayer(c, p) \/ OnUpdatePlayer(c, p)
        \/ \E item \in Items \union {None} :
            \/ OnUpdateContentItem(c, p, item)
            \/ \E state \in States \union {None}, time \in 0..MaxTime :
                 OnSetState(c, p, state, time, item)

Spec == Init /\ [][Next]_vars

-----------------------------------------------------------------------------
(* Properties                                                              *)

PlayerOK(q) ==
    /\ q \in [state : States \union {None}, time : 0..MaxTime, item : Items \union {None}]
    /\ q.state = None => q.time = 0

\* The variables keep their shape; a player without a state has no timestamp.
TypeOK ==
    /\ DOMAIN clients \subseteq Clients
    /\ \A c \in DOMAIN clients :
        /\ clients[c].active \in Players \union {None}
        /\ DOMAIN clients[c].players \subseteq Players
        /\ \A p \in DOMAIN clients[c].players : PlayerOK(clients[c].players[p])
    /\ nowClient \in Clients \union {None}
    /\ told \in (Clients \union {None}) \X (Players \union {None})

\* A client never points at a player that was removed: it would show nothing although its
\* default player plays (removePlayer(), and every handler that makes a player active).
ActiveExists ==
    \A c \in DOMAIN clients :
        clients[c].active # None => clients[c].active \in DOMAIN clients[c].players

\* What the listeners were told last is what the state shows: the content of the last
\* nowPlayingChanged, and the client and player named by either event.  Messages that only
\* register a client or a player announce nothing, and may: what they add has no content.  Nor
\* does clear(), so this is about what was told since the last one.
ListenersAreCurrent ==
    /\ snapshot # None =>
        /\ snapshot.content = Current.content
        /\ snapshot.client # None => snapshot.client = Current.client
        /\ snapshot.player # None => snapshot.player = Current.player
    /\ told[1] # None => told[1] = Current.client
    /\ told[2] # None => told[2] = Current.player
=============================================================================
