----------------------------- MODULE MCDelivery -----------------------------
\* Webhooks for TLC: with and without a URL, for each event, and disabled.
EXTENDS Delivery

MCSettings ==
  {[enabled |-> TRUE, events |-> e, resolves |-> TRUE] :
     e \in {{"failure"}, {"success"}, {"failure", "success"}}}
  \cup {[enabled |-> TRUE, events |-> {"failure", "success"}, resolves |-> FALSE],
        [enabled |-> FALSE, events |-> {"failure", "success"}, resolves |-> TRUE]}
=============================================================================
