-------------------------- MODULE ConnectionErrors --------------------------
(***************************************************************************)
(* The errors of connections, as quinn reports them, and the conversions   *)
(* of the code to its own ConnectionError (src/src/error.rs), with the     *)
(* distinction it draws between a 'benign' end of a connection and a       *)
(* failure.                                                                *)
(*                                                                         *)
(* The payload of an error is abstracted to what is_benign tells apart:    *)
(* an application close carries the code 0 or another one.                 *)
(***************************************************************************)

\* The quinn::ConnectionError values a connection can end with, and the
\* quinn::ConnectError values with which it does not even begin.
QuinnErrors ==
  {"LocallyClosed", "ApplicationClosed0", "ApplicationClosedN",
   "ConnectionClosed", "VersionMismatch", "TransportError", "Reset",
   "TimedOut"}

QuinnConnectErrors ==
  {"EndpointStopping", "TooManyConnections", "InvalidRemoteAddress",
   "InvalidDnsName", "NoDefaultClientConfig", "UnsupportedVersion"}

\* enum ConnectionError, and the variants of enum Close in its last one.
Closes == {"Closed(Local)", "Closed(Application 0)", "Closed(Application N)",
           "Closed(Transport)"}

ConnectionError ==
  {"Stopped", "TooManyConnections", "InvalidAddress", "InternalConfigError",
   "VersionMismatch", "TransportError", "Reset", "TimedOut"} \cup Closes

\* impl From<quinn::ConnectionError> for ConnectionError.
FromQuinn ==
  [e \in QuinnErrors |->
     CASE e = "LocallyClosed"      -> "Closed(Local)"
       [] e = "ApplicationClosed0" -> "Closed(Application 0)"
       [] e = "ApplicationClosedN" -> "Closed(Application N)"
       [] e = "ConnectionClosed"   -> "Closed(Transport)"
       [] OTHER                    -> e]

\* impl From<quinn::ConnectError> for ConnectionError.
FromConnect ==
  [e \in QuinnConnectErrors |->
     CASE e = "EndpointStopping"     -> "Stopped"
       [] e = "TooManyConnections"   -> "TooManyConnections"
       [] e = "InvalidRemoteAddress" -> "InvalidAddress"
       [] OTHER                      -> "InternalConfigError"]

\* ConnectionError::is_benign.
is_benign(error) ==
  error \in {"TimedOut", "Closed(Local)", "Closed(Application 0)"}

\* The test the listeners and the message reader make of a quinn error.
Benign(e) == is_benign(FromQuinn[e])

=============================================================================
