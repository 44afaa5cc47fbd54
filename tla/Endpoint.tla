------------------------------ MODULE Endpoint ------------------------------
(***************************************************************************)
(* Endpoint::new_peer (src/src/endpoint.rs) and the life of the endpoint   *)
(* it returns: the contact is chosen, asked for the address it sees, and   *)
(* asked to verify the public address by connecting to it, while this      *)
(* endpoint already accepts connections (EndpointListener).                *)
(*                                                                         *)
(* The contact runs the same code: its side is the handlers of echo and    *)
(* verification requests in src/src/connection.rs.  The network is         *)
(* external: a set of addresses leads to this endpoint, and the port that  *)
(* forward_port maps.                                                      *)
(***************************************************************************)
EXTENDS EndpointListener

CONSTANTS
  Contacts,       \* the contacts: they are peers that may connect back
  LocalAddr,      \* addresses are pairs of an IP and a port
  VisibleAddr,    \* the address of this endpoint that contacts see
  ExternalIp,     \* config.external_ip, or "none"
  ExternalPort,   \* config.external_port, or "none"
  ForwardPort,    \* config.forward_port
  Routes,         \* addresses that may lead to this endpoint
  Slow,           \* may a timeout expire?
  Lossy           \* the peers whose connections may fail, or be lost

ASSUME EndpointAssumption ==
  /\ Contacts \subseteq Peers /\ Lossy \subseteq Peers
  /\ ForwardPort \in BOOLEAN /\ Slow \in BOOLEAN

VARIABLES
  pc,         \* control state of new_peer
  failed,     \* the contacts to which no connection could be made
  contact,    \* the contact, or "none"
  link,       \* the connection to it: "none", "up" or "lost"
  rpc,        \* the request to it: "none", "sent", "answered"
  answer,     \* the last answer: "seen" stands for VisibleAddr
  service,    \* the contact's handler of the verification request
  public,     \* the public address
  routes,     \* the addresses that lead to this endpoint
  forwarded,  \* was the port forwarded?
  result      \* what new_peer returned, or "none"

net      == <<routes, forwarded>>
peerVars == <<pc, failed, contact, link, rpc, answer, service, public, net,
              result>>
vars     == <<listenerVars, peerVars>>

NoAddr   == <<"none", "none">>
Outcomes == {"Ok", "EndpointEcho", "Upnp", "EndpointVerification",
             "Unreachable"}

EndpointTypeOK ==
  /\ ListenerTypeOK
  /\ pc \in {"connect", "echo", "resolve", "forward", "listen", "verify",
             "done"}
  /\ failed \subseteq Contacts /\ contact \in Contacts \cup {"none"}
  /\ link \in {"none", "up", "lost"} /\ (contact = "none" <=> link = "none")
  /\ rpc \in {"none", "sent", "answered"}
  /\ answer \in {"none", "seen", "valid", "invalid"}
  /\ service \in {"idle", "connect", "echo", "replied"}
  /\ routes \subseteq Routes /\ forwarded \in BOOLEAN
  /\ result \in Outcomes \cup {"none"}
  /\ pc = "done" <=> result # "none"

Init ==
  /\ ListenerInit
  /\ pc = "connect" /\ failed = {} /\ contact = "none" /\ link = "none"
  /\ rpc = "none" /\ answer = "none" /\ service = "idle"
  /\ public = NoAddr /\ routes \in SUBSET Routes /\ forwarded = FALSE
  /\ result = "none"

-----------------------------------------------------------------------------
(***************************************************************************)
(* connect_to_any: the first connection that is made is kept.              *)
(***************************************************************************)
Connects(c) ==
  /\ pc = "connect" /\ c \in Contacts \ failed
  /\ contact' = c /\ link' = "up" /\ pc' = "echo"
  /\ UNCHANGED <<listenerVars, failed, rpc, answer, service, public,
                 net, result>>

ConnectFails(c) ==
  /\ pc = "connect" /\ c \in (Contacts \ failed) \cap Lossy
  /\ failed' = failed \cup {c}
  /\ UNCHANGED <<listenerVars, pc, contact, link, rpc, answer, service,
                 public, net, result>>

\* There are no contacts, or none of them could be connected to.
NoContact ==
  /\ pc = "connect" /\ failed = Contacts
  /\ pc' = "resolve"
  /\ UNCHANGED <<listenerVars, failed, contact, link, rpc, answer, service,
                 public, net, result>>

LinkLost ==
  /\ link = "up" /\ contact \in Lossy
  /\ link' = "lost"
  /\ UNCHANGED <<listenerVars, pc, failed, contact, rpc, answer, service,
                 public, net, result>>

-----------------------------------------------------------------------------
(***************************************************************************)
(* How new_peer returns.                                                   *)
(***************************************************************************)

\* An error before the endpoint listens drops the quinn endpoint and all it
\* has.  Later the listening task keeps the quinn endpoint, and what is dropped
\* is the receiving half of its channel.
Abandoned ==
  IF task = "off"
    THEN /\ closed' = TRUE /\ queue' = <<>>
         /\ status' = Closing({p \in Peers : status[p] = "queued"})
         /\ UNCHANGED <<shake, task, hand, tx, rx>>
    ELSE /\ rx' = "dropped" /\ tx' = <<>> /\ status' = Closing(InChannel)
         /\ UNCHANGED <<shake, queue, task, hand, closed>>

ReturnErr(error) ==
  /\ pc' = "done" /\ result' = error
  /\ link' = IF link = "up" THEN "lost" ELSE link
  /\ Abandoned

ReturnOk ==
  /\ pc' = "done" /\ result' = "Ok"
  /\ UNCHANGED <<link, listenerVars>>

\* A request to the contact fails with the connection, or when it times out.
BugNoTimeout  == link = "lost"
RequestFails  == link = "lost" \/ (rpc = "sent" /\ Slow)

-----------------------------------------------------------------------------
(***************************************************************************)
(* endpoint_echo and resolve_public_addr.                                  *)
(***************************************************************************)

\* open_bi and send_wire_msg are awaited before the timeout of the request
\* begins.  They do not wait for a contact that grants, in the handshake, the
\* credit for two streams and their short requests, as this crate does.
SendRequest(at) ==
  /\ pc = at /\ link = "up" /\ rpc = "none"
  /\ rpc' = "sent"
  /\ UNCHANGED <<listenerVars, pc, failed, contact, link, answer, service,
                 public, net, result>>

\* handle_endpoint_echo at the contact.
ContactEchoes ==
  /\ pc = "echo" /\ link = "up" /\ rpc = "sent"
  /\ rpc' = "answered" /\ answer' = "seen"
  /\ UNCHANGED <<listenerVars, pc, failed, contact, link, service, public,
                 net, result>>

EchoDone ==
  /\ pc = "echo" /\ rpc = "answered"
  /\ pc' = "resolve" /\ rpc' = "none"
  /\ UNCHANGED <<listenerVars, failed, contact, link, answer, service, public,
                 net, result>>

EchoFails ==
  /\ pc = "echo" /\ RequestFails
  /\ ReturnErr("EndpointEcho")
  /\ UNCHANGED <<failed, contact, rpc, answer, service, public, net>>

\* Each part of the public address is the configured one, else the one the
\* contact sees, else the local one.
FirstOf(configured, visible, local) ==
  CASE configured # "none" -> configured
    [] configured = "none" /\ answer # "none" -> visible
    [] OTHER -> local

public_addr ==
  <<FirstOf(ExternalIp, VisibleAddr[1], LocalAddr[1]),
    FirstOf(ExternalPort, VisibleAddr[2], LocalAddr[2])>>

Resolve ==
  /\ pc = "resolve"
  /\ public' = public_addr
  /\ pc' = IF ForwardPort THEN "forward" ELSE "listen"
  /\ UNCHANGED <<listenerVars, failed, contact, link, rpc, answer, service,
                 net, result>>

-----------------------------------------------------------------------------
(***************************************************************************)
(* Port forwarding.                                                        *)
(***************************************************************************)
Forward ==
  /\ pc = "forward"
  /\ forwarded' = TRUE /\ pc' = "listen"
  /\ UNCHANGED <<listenerVars, failed, contact, link, rpc, answer, service,
                 public, routes, result>>

ForwardFails ==
  /\ pc = "forward"
  /\ ReturnErr("Upnp")
  /\ UNCHANGED <<failed, contact, rpc, answer, service, public, net>>

Reaches(addr) ==
  \/ addr \in routes
  \/ forwarded /\ addr = <<VisibleAddr[1], public[2]>>

-----------------------------------------------------------------------------
(***************************************************************************)
(* Listening and endpoint_verification.                                    *)
(***************************************************************************)
BugListensLater(t) == t
Started(t)         == "next"

Listen ==
  /\ pc = "listen"
  /\ task' = Started(task) /\ rx' = "held"
  /\ pc' = "verify"
  /\ UNCHANGED <<status, shake, queue, hand, tx, closed, failed, contact,
                 link, rpc, answer, service, public, net, result>>

\* Without a contact there is nobody to ask.
SkipVerification ==
  /\ pc = "verify" /\ contact = "none"
  /\ ReturnOk
  /\ UNCHANGED <<failed, contact, rpc, answer, service, public, net>>

VerificationFails ==
  /\ pc = "verify" /\ contact # "none" /\ RequestFails
  /\ ReturnErr("EndpointVerification")
  /\ UNCHANGED <<failed, contact, rpc, answer, service, public, net>>

Verdict ==
  \/ answer = "valid" /\ ReturnOk
  \/ answer = "invalid" /\ ReturnErr("Unreachable")

VerificationDone ==
  /\ pc = "verify" /\ rpc = "answered"
  /\ Verdict
  /\ UNCHANGED <<failed, contact, rpc, answer, service, public, net>>

(***************************************************************************)
(* handle_endpoint_verification at the contact: it connects to the public  *)
(* address and sends an echo request over that connection.  The request is *)
(* answered once this endpoint has accepted the connection.                *)
(***************************************************************************)
Probe ==
  /\ service = "idle" /\ pc = "verify" /\ rpc = "sent" /\ link = "up"
  /\ service' = "connect"
  /\ \/ Reaches(public) /\ PeerConnects(contact)
     \/ ~Reaches(public) /\ UNCHANGED listenerVars
  /\ UNCHANGED <<pc, failed, contact, link, rpc, answer, public, net,
                 result>>

ProbeConnected ==
  /\ service = "connect" /\ shake[contact] = "done"
  /\ service' = "echo"
  /\ UNCHANGED <<listenerVars, pc, failed, contact, link, rpc, answer, public,
                 net, result>>

\* What the echo request over the new connection shows.
BugTrustsHandshake == TRUE
Echoed             == status[contact] = "accepted"

\* The verdict is sent if new_peer is still waiting for it.
Reply(verdict) ==
  /\ service' = "replied"
  /\ IF link = "up" /\ pc = "verify" /\ rpc = "sent"
       THEN rpc' = "answered" /\ answer' = verdict
       ELSE UNCHANGED <<rpc, answer>>
  /\ UNCHANGED <<listenerVars, pc, failed, contact, link, public, net,
                 result>>

ProbeSucceeds ==
  service = "echo" /\ Echoed /\ Reply("valid")

\* The probe fails where the address leads nowhere, with its connection, or
\* after ENDPOINT_VERIFICATION_TIMEOUT.
ProbeFails ==
  /\ \/ service = "connect" /\ (shake[contact] = "failed" \/ ~Reaches(public))
     \/ service \in {"connect", "echo"} /\ (Slow \/ contact \in Lossy \/ closed)
     \/ service = "echo" /\ status[contact] = "over"
  /\ Reply("invalid")

-----------------------------------------------------------------------------
(***************************************************************************)
(* The whole system.  The application has the endpoint once new_peer has   *)
(* returned it.                                                            *)
(***************************************************************************)
NewPeer ==
  \/ \E c \in Contacts : Connects(c) \/ ConnectFails(c)
  \/ NoContact
  \/ SendRequest("echo") \/ EchoDone \/ EchoFails
  \/ Resolve \/ Forward \/ ForwardFails
  \/ Listen \/ SendRequest("verify") \/ SkipVerification
  \/ VerificationFails \/ VerificationDone

Contact == ContactEchoes \/ Probe \/ ProbeConnected \/ ProbeSucceeds
           \/ ProbeFails

Listener == Task /\ UNCHANGED peerVars

ReadsConnections == result = "Ok" /\ NextConnection /\ UNCHANGED peerVars

\* Closing the endpoint also closes the connection to the contact.
Application ==
  \/ ReadsConnections
  \/ result = "Ok" /\ DropIncomingConnections /\ UNCHANGED peerVars
  \/ /\ result = "Ok" /\ CloseEndpoint
     /\ link' = IF link = "up" THEN "lost" ELSE link
     /\ UNCHANGED <<pc, failed, contact, rpc, answer, service, public,
                    net, result>>

Shakes(p) ==
  /\ \E o \in {"done", "failed"} : (o = "failed" => p \in Lossy) /\ Handshake(p, o)
  /\ UNCHANGED peerVars

Network ==
  \/ LinkLost
  \/ \E p \in Peers \ Contacts : PeerConnects(p) /\ UNCHANGED peerVars
  \/ \E p \in Peers : Shakes(p)

Next == NewPeer \/ Contact \/ Listener \/ Application \/ Network

Spec == Init /\ [][Next]_vars

(***************************************************************************)
(* Fairness: the tasks of this endpoint run, a timeout expires unless what *)
(* it waits for comes first, and every handshake ends, if only by the idle *)
(* timeout.  ServingSpec adds that the contact, which runs the same code,  *)
(* answers requests, and an application that goes on taking connections.   *)
(***************************************************************************)
FairSpec ==
  /\ Spec /\ WF_vars(NewPeer) /\ WF_vars(Listener)
  /\ \A p \in Peers : WF_vars(Shakes(p))

ServingSpec == FairSpec /\ WF_vars(Contact) /\ WF_vars(ReadsConnections)

-----------------------------------------------------------------------------
\* A bootstrapped endpoint was reached at the public address it returns: the
\* contact connected to it there and this endpoint accepted the connection.
Verified ==
  result = "Ok" /\ contact # "none" =>
    Reaches(public) /\ status[contact] \in {"accepted", "over"}

\* new_peer always returns, even if the contact never answers, provided that it
\* grants the credit for the requests (SendRequest).
NewPeerReturns == <>(pc = "done")

\* If the contact is not lost and no timeout expires, new_peer succeeds exactly
\* if its public address leads to it, even while other peers connect and fill
\* the channel or fail to: it listens before it asks for the verification.
\* With more of them than the channel holds it would wait for a timeout.
Bootstraps ==
  <>(result = IF Reaches(public) THEN "Ok" ELSE "Unreachable")

\* Every connection that a peer opens is accepted or closed, as long as the
\* endpoint is not blocked by a full channel.
EveryPeerServed ==
  \A p \in Peers : (status[p] = "queued") ~> (status[p] # "queued")

\* When new_peer fails, no connection that peers had made stays open.
FailureClosesAll ==
  (result \notin {"none", "Ok"}) ~>
    [](\A p \in Peers : status[p] # "accepted" \/ p = hand)

\* After close the task that accepts connections ends.
CloseEndsListener == closed ~> task \in {"ended", "off"}
=============================================================================
