---------------------------- MODULE MCHttpClient -----------------------------
(* Instances of HttpClient for TLC. *)
EXTENDS HttpClient, TLC

CONSTANTS r1, r2

MCOne == {r1}
MCTwo == {r1, r2}

Settings(https, proxy, timeout, timeout_connect, internal, sync, interrupts) ==
  [https |-> https, proxy |-> proxy, timeout |-> timeout, timeout_connect |-> timeout_connect,
   internal |-> internal, sync |-> sync,
   interrupts |-> interrupts]

\* Without timeouts: asynchronous HTTP on the user's io_service, and synchronous HTTPS through
\* a proxy.
MCConfigs == {Settings(FALSE, FALSE, FALSE, FALSE, FALSE, FALSE, TRUE),
              Settings(TRUE, TRUE, FALSE, FALSE, TRUE, TRUE, TRUE)}

MCTimeouts == {Settings(FALSE, FALSE, TRUE, TRUE, TRUE, FALSE, FALSE)}
MCSync == {Settings(FALSE, FALSE, TRUE, TRUE, TRUE, TRUE, FALSE)}

\* One request is answered in chunks, the other with content of the other kinds or with events.
MCAnswers == (r1 :> {"size"}) @@ (r2 :> {"body", "until", "events"})
MCAtOnce == (r1 :> {}) @@ (r2 :> {})
MCEvents == (r1 :> {"events"})

=============================================================================
