---------------------------- MODULE MCLifecycle ----------------------------
(* Lifecycle for TLC: configuration files that are each unusual in what    *)
(* decides about ports, addresses and threads.                             *)
EXTENDS Lifecycle, TLC

Page == [enable |-> TRUE]
With(s) == [EmbedWebServerConfig |-> s]

MCTrees ==
    {Empty,
     With(Page) @@ [controlServerPort |-> 0],
     With(Page @@ [host |-> "elsewhere"]) @@ [controlServerPort |-> -1, threadNum |-> -1],
     With(Page @@ [port |-> 4464]) @@ [controlServerPort |-> 70000, threadNum |-> 2],
     With(Page @@ [backendPort |-> 80, host |-> "name"]),
     With(Page @@ [backendPort |-> -70000, port |-> 70000]) @@ [threadNum |-> 3],
     With([enable |-> FALSE, port |-> 1])}
    \cup {[controlServerHost |-> h] : h \in Host}
=============================================================================
