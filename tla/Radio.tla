-------------------------------- MODULE Radio --------------------------------
(***************************************************************************)
(* The radio: a page with its terminal and its listening post, the bridge  *)
(* that serves all pages, and the receiver the bridge is linked to         *)
(* (frontend/src/hooks/useJS8Stations.ts, components/js8call/*.tsx,        *)
(* js8call/server.py, js8call/kiwi_client.py).                             *)
(*                                                                         *)
(* Commands go up one socket in order and are handled one at a time.  The  *)
(* bridge answers GET_KIWI_STATUS itself but sends changes of the link     *)
(* through a queue to everybody, and delays what the user sets by half a   *)
(* second, so that of several only the last is done.                       *)
(***************************************************************************)
EXTENDS Naturals, Sequences

CONSTANTS
  Hosts,       \* receivers
  Freqs,       \* frequencies: 0 is one the bridge refuses
  Gains,       \* what a setting may be: 0 is the default
  MaxSent,     \* bound on what the page does
  MaxEvents    \* bound on losses and on what other operators do

VARIABLES
  link,        \* the client of the bridge: host and frequency, or none
  linked,      \* is_connected
  known,       \* _kiwi_config
  rxGain,      \* the receiver's setting
  joining,     \* connect() under way, or none
  tuning, gaining,   \* the delayed commands
  queue,       \* statuses for everybody
  up, down,    \* the socket of the page
  socket,      \* it is open
  config,      \* activeKiwiConfig
  locked,      \* kiwiConnecting
  post,        \* the listening post is shown
  local, synced,     \* localFreq and prevSyncFreq
  gain,        \* the setting as the post shows it
  stopping,    \* isDisconnecting
  silent,      \* history: a link was lost and nobody was told
  missed,      \* history: commands of the post that came to nothing, or unheard
  sent, events

bridge == <<link, linked, known, rxGain, joining, tuning, gaining, queue>>
page == <<config, locked, post, local, synced, gain, stopping>>
bounds == <<sent, events>>
vars == <<bridge, up, down, socket, page, silent, missed, bounds>>

None == 0
Unset == 99
Node(h, f) == [host |-> h, freq |-> f]
Nodes == [host : Hosts, freq : Freqs]
Told(n) == [status |-> n]
Off == [status |-> [host |-> None, freq |-> None]]
NoNode == Off.status

Set(h, f) == [do |-> "set", node |-> Node(h, f)]
Gain(v) == [do |-> "gain", value |-> v]
Get == [do |-> "get"]
Disconnect == [do |-> "disconnect"]

TypeOK ==
  /\ {link, known, joining, config} \subseteq Nodes \cup {NoNode}
  /\ {linked, socket, locked, post, stopping, silent} \subseteq BOOLEAN
  /\ tuning \in Freqs \cup {Unset} /\ gaining \in Gains \cup {Unset}
  /\ {rxGain, gain} \subseteq Gains /\ {local, synced} \subseteq Freqs \cup {None}
  /\ missed \subseteq {"tune", "gain", "stop"}
  /\ linked => link # NoNode
  /\ sent \in 0..MaxSent /\ events \in 0..MaxEvents

Init ==
  /\ link = NoNode /\ linked = FALSE /\ known = NoNode /\ rxGain = 0 /\ joining = NoNode
  /\ tuning = Unset /\ gaining = Unset /\ queue = <<>> /\ up = <<>> /\ down = <<>>
  /\ socket = FALSE /\ config = NoNode /\ locked = FALSE /\ post = FALSE
  /\ local = None /\ synced = None /\ gain = 0 /\ stopping = FALSE
  /\ silent = FALSE /\ missed = {} /\ sent = 0 /\ events = 0

Event == events < MaxEvents /\ events' = events + 1

-----------------------------------------------------------------------------
(* The client of the bridge.                                               *)

(* What was delayed is not done any more.                                  *)
CancelDelayed ==
  /\ tuning' = Unset /\ gaining' = Unset
  /\ missed' = missed \cup {c \in {"tune"} : tuning # Unset}
                      \cup {c \in {"gain"} : gaining # Unset}

(* disconnect(): always says so.                                           *)
LinkOff ==
  /\ linked' = FALSE /\ known' = NoNode /\ queue' = Append(queue, Off) /\ silent' = FALSE
  /\ CancelDelayed

(* connect() leaves the node it had, before it knows of the next.          *)
Join(n) ==
  /\ joining' = n
  /\ IF link # NoNode THEN LinkOff
     ELSE UNCHANGED <<linked, known, queue, silent, tuning, gaining, missed>>
  /\ link' = NoNode

(* A new link starts with the defaults of the handshake.                   *)
Joined ==
  /\ joining # NoNode /\ joining' = NoNode
  /\ link' = joining /\ linked' = TRUE /\ known' = joining /\ rxGain' = 0
  /\ queue' = Append(queue, Told(joining)) /\ silent' = FALSE
  /\ missed' = missed \cup {"gain"}
  /\ UNCHANGED <<tuning, gaining, up, down, socket, page, bounds>>

(* No socket, which nobody is told, or one without audio, which is closed. *)
JoinFails ==
  /\ joining # NoNode /\ joining' = NoNode
  /\ queue' \in {queue, Append(queue, Off)}
  /\ missed' = missed \cup {c \in {"tune"} : joining.freq = local}
  /\ UNCHANGED <<link, linked, known, rxGain, tuning, gaining, up, down, socket, page,
                 silent, bounds>>

(* The link breaks.  The bridge goes to the next node, unless it did so a  *)
(* moment ago or there is none: then the pages are told nothing.           *)
LinkLost ==
  /\ Event /\ linked /\ joining = NoNode
  /\ \/ /\ linked' = FALSE /\ silent' = TRUE
        /\ UNCHANGED <<link, known, joining, queue, tuning, gaining, missed>>
     \/ \E h \in Hosts \ {link.host} : Join(Node(h, link.freq))
  /\ UNCHANGED <<rxGain, up, down, socket, page, sent>>

(* Half a second after the last of them.                                   *)
TuneDone ==
  /\ tuning # Unset /\ tuning' = Unset
  /\ IF linked
     THEN /\ link' = [link EXCEPT !.freq = tuning] /\ known' = link'
          /\ queue' = Append(queue, Told(link')) /\ UNCHANGED missed
     ELSE missed' = missed \cup {"tune"} /\ UNCHANGED <<link, known, queue>>
  /\ UNCHANGED <<linked, rxGain, joining, gaining, up, down, socket, page, silent, bounds>>

GainDone ==
  /\ gaining # Unset /\ gaining' = Unset
  /\ IF linked THEN rxGain' = gaining /\ UNCHANGED missed
     ELSE missed' = missed \cup {"gain"} /\ UNCHANGED rxGain
  /\ UNCHANGED <<link, linked, known, joining, tuning, queue, up, down, socket, page, silent,
                 bounds>>

-----------------------------------------------------------------------------
(* Commands at the bridge.                                                 *)

(* SET_KIWI: a retune of the node it has, or another link.                 *)
SetKiwi(n) ==
  IF n.freq = 0
  THEN /\ missed' = missed \cup {"tune"}
       /\ UNCHANGED <<joining, link, linked, known, queue, silent, tuning, gaining>>
  ELSE IF linked /\ link.host = n.host
  THEN /\ tuning' = n.freq
       /\ UNCHANGED <<joining, link, linked, known, queue, silent, gaining, missed>>
  ELSE Join(n)

(* Without a link it is an error, and what the post shows stays.           *)
SetGain(v) ==
  /\ IF linked THEN gaining' = v /\ UNCHANGED missed
     ELSE missed' = missed \cup {"gain"} /\ UNCHANGED gaining
  /\ UNCHANGED <<joining, link, linked, known, queue, silent, tuning>>

Handle ==
  /\ up # <<>> /\ joining = NoNode
  /\ LET c == Head(up) IN
     \/ /\ c.do = "set" /\ SetKiwi(c.node) /\ UNCHANGED down
     \/ /\ c.do = "gain" /\ SetGain(c.value) /\ UNCHANGED down
     \/ /\ c.do = "get" /\ down' = Append(down, IF linked THEN Told(known) ELSE Off)
        /\ silent' = (silent /\ queue # <<>>)
        /\ UNCHANGED <<joining, link, linked, known, queue, tuning, gaining, missed>>
     \/ /\ c.do = "disconnect" /\ LinkOff /\ link' = NoNode /\ UNCHANGED <<joining, down>>
  /\ up' = Tail(up)
  /\ UNCHANGED <<rxGain, socket, page, bounds>>

(* Another operator retunes, sets, stops or links.                         *)
OtherCommand ==
  /\ Event /\ joining = NoNode
  /\ \/ /\ linked /\ tuning' \in Freqs \ {0}
        /\ missed' = missed \cup {c \in {"tune"} : tuning # Unset}
        /\ UNCHANGED <<joining, link, linked, known, queue, silent, gaining>>
     \/ /\ linked /\ gaining' \in Gains /\ missed' = missed \cup {"gain"}
        /\ UNCHANGED <<joining, link, linked, known, queue, silent, tuning>>
     \/ LinkOff /\ link' = NoNode /\ UNCHANGED joining
     \/ \E h \in Hosts : ~ (linked /\ link.host = h) /\ \E f \in Freqs \ {0} : Join(Node(h, f))
  /\ UNCHANGED <<rxGain, up, down, socket, page, sent>>

(* The broadcaster: who is not there misses it.                            *)
Broadcast ==
  /\ queue # <<>> /\ queue' = Tail(queue)
  /\ down' = IF socket THEN Append(down, Head(queue)) ELSE down
  /\ UNCHANGED <<link, linked, known, rxGain, joining, tuning, gaining, up, socket, page,
                 silent, missed, bounds>>

-----------------------------------------------------------------------------
(* The socket of the page.                                                 *)

(* The greeting has the status, but for a page only if there is a link.    *)
SocketOpens ==
  /\ ~ socket /\ socket' = TRUE
  /\ down' = <<[hello |-> IF linked THEN known ELSE NoNode]>>
  /\ UNCHANGED <<bridge, up, page, silent, missed, bounds>>

(* What is on its way is lost; the page keeps what it shows.  A tune, or a *)
(* stop, of which it has not heard is not announced again.                 *)
SocketLost ==
  /\ Event /\ socket /\ socket' = FALSE /\ up' = <<>> /\ down' = <<>>
  /\ missed' = missed \cup {c \in {"tune"} : local # synced}
                      \cup {c \in {"gain"} : \E i \in DOMAIN up : up[i].do = "gain"}
                      \cup {c \in {"stop"} : stopping}
  /\ UNCHANGED <<bridge, page, silent, sent>>

-----------------------------------------------------------------------------
(* What the page makes of it.                                              *)

(* Slip: what it followed is only noted when it opens.                     *)
FollowSlip ==
  /\ IF post /\ config' # NoNode /\ config'.freq # synced
     THEN local' = config'.freq
     ELSE UNCHANGED local
  /\ stopping' = (stopping /\ config'.host = config.host)
  /\ UNCHANGED synced

(* The post follows when the frequency is another than the one it followed *)
(* last, and the effect of the host ends "DISCONNECTING".                  *)
Follow ==
  /\ IF post /\ config' # NoNode /\ config'.freq # synced
     THEN local' = config'.freq /\ synced' = config'.freq
     ELSE UNCHANGED <<local, synced>>
  /\ stopping' = (stopping /\ config'.host = config.host)

Status(n) == config' = n /\ locked' = FALSE /\ Follow

Greeting(n) ==
  /\ config' = (IF n = NoNode THEN config ELSE n)
  /\ Follow /\ up' = Append(up, Get) /\ UNCHANGED locked

Receive ==
  /\ socket /\ down # <<>> /\ down' = Tail(down)
  /\ \/ /\ "status" \in DOMAIN Head(down) /\ Status(Head(down).status) /\ UNCHANGED up
     \/ /\ "hello" \in DOMAIN Head(down) /\ Greeting(Head(down).hello)
  /\ UNCHANGED <<bridge, socket, post, gain, silent, missed, bounds>>

(* Fifteen seconds after any command, not only the last.                   *)
Unlock ==
  /\ locked /\ locked' = FALSE
  /\ UNCHANGED <<bridge, up, down, socket, config, post, local, synced, gain, stopping, silent,
                 missed, bounds>>

-----------------------------------------------------------------------------
(* The operator.                                                           *)

User == sent < MaxSent /\ sent' = sent + 1

(* sendAction: SET_KIWI locks.                                             *)
Send(c) ==
  /\ socket /\ up' = Append(up, c)
  /\ locked' = (locked \/ c.do = "set")

(* A row of the node browser, or a mark on its map.                        *)
FromBrowser(h) == ~ locked /\ config.host # h

(* Private nodes are entered, and may be the one that is linked.           *)
FromEntry == ~ locked

(* The widget beside the map keeps the frequency.                          *)
FromWidget(h, f) ==
  ~ locked /\ config.host # h /\ (config = NoNode \/ f = config.freq)

ConnectNode(h) ==
  /\ User
  /\ \E f \in Freqs : (FromBrowser(h) \/ FromEntry \/ FromWidget(h, f)) /\ Send(Set(h, f))
  /\ missed' = missed \cup {"tune"}
  /\ UNCHANGED <<bridge, down, socket, config, post, local, synced, gain, stopping, silent,
                 events>>

(* The terminal retunes the node it shows, if it shows one.                *)
Retune(f) == config # NoNode /\ Send(Set(config.host, f))

(* Bands, presets and the schedule.                                        *)
SelectBand(f) ==
  /\ User /\ ~ post /\ Retune(f)
  /\ UNCHANGED <<bridge, down, socket, config, post, local, synced, gain, stopping, silent,
                 missed, events>>

(* The frequency field sends only another frequency.                       *)
EnterFrequency(f) == config.freq # f /\ SelectBand(f)

DisconnectNode ==
  /\ User /\ config # NoNode /\ Send(Disconnect)
  /\ UNCHANGED <<bridge, down, socket, config, post, local, synced, gain, stopping, silent,
                 missed, events>>

(* The post has the states of a new component: the settings of the         *)
(* receiver are not asked.                                                 *)
OpenPost ==
  /\ User /\ ~ post /\ post' = TRUE
  /\ local' = config.freq /\ synced' = config.freq /\ gain' = 0 /\ stopping' = FALSE
  /\ missed' = {"gain"}
  /\ UNCHANGED <<bridge, up, down, socket, config, locked, silent, events>>

ClosePost ==
  /\ post /\ post' = FALSE /\ stopping' = FALSE
  /\ UNCHANGED <<bridge, up, down, socket, config, locked, local, synced, gain, silent, missed,
                 bounds>>

Tune(f) ==
  /\ User /\ post /\ config # NoNode /\ local' = f
  /\ Send(Set(config.host, f)) /\ missed' = missed \ {"tune"}
  /\ UNCHANGED <<bridge, down, socket, config, post, synced, gain, stopping, silent, events>>

(* A switch or a slider: it moves whether or not there is anyone to tell.  *)
ChangeGain(v) ==
  /\ User /\ post /\ gain' = v
  /\ IF config # NoNode /\ socket
     THEN Send(Gain(v)) /\ missed' = missed \ {"gain"}
     ELSE missed' = missed \cup {"gain"} /\ UNCHANGED <<up, locked>>
  /\ UNCHANGED <<bridge, down, socket, config, post, local, synced, stopping, silent, events>>

Stop ==
  /\ User /\ post /\ ~ stopping /\ stopping' = TRUE /\ Send(Disconnect)
  /\ UNCHANGED <<bridge, down, socket, config, post, local, synced, gain, silent, missed,
                 events>>

Next ==
  \/ Joined \/ JoinFails \/ LinkLost \/ TuneDone \/ GainDone \/ Handle \/ OtherCommand
  \/ Broadcast \/ SocketOpens \/ SocketLost \/ Receive \/ Unlock
  \/ DisconnectNode \/ OpenPost \/ ClosePost \/ Stop
  \/ \E h \in Hosts : ConnectNode(h)
  \/ \E f \in Freqs : SelectBand(f) \/ EnterFrequency(f) \/ Tune(f)
  \/ \E v \in Gains : ChangeGain(v)

-----------------------------------------------------------------------------
(* Properties.                                                             *)

(* Everything said has been heard.                                         *)
Quiet ==
  /\ socket /\ up = <<>> /\ down = <<>> /\ queue = <<>>
  /\ joining = NoNode /\ tuning = Unset /\ gaining = Unset

(* Once everything is quiet the page shows the link there is, after any    *)
(* crossing of answers and announcements, reconnects, failovers and        *)
(* commands of others; unless a link went down and nobody was told.        *)
ShownIsLinked ==
  Quiet /\ ~ silent => config = IF linked THEN link ELSE NoNode

(* And the listening post shows the frequency and the settings of the      *)
(* receiver and has no stop under way, unless a command of its own came to *)
(* nothing.                                                                *)
PostIsTruthful ==
  Quiet /\ ~ silent /\ post /\ config # NoNode =>
    /\ "tune" \notin missed => local = link.freq
    /\ "gain" \notin missed => gain = rxGain
    /\ "stop" \notin missed => ~ stopping
=============================================================================
