----------------------------- MODULE MCMacSync -----------------------------
EXTENDS MacSyncProps

Budget(learns, ages, po, eth, link, drops) ==
  [learns |-> learns, ages |-> ages, po |-> po, eth |-> eth, link |-> link,
   drops |-> drops]

\* A port-channel that flaps and a lost session; moves between ports and a
\* lost session; port-channel and peer link failing together.
MCBudgets == {Budget(2, 1, 2, 0, 1, 1), Budget(3, 2, 0, 1, 0, 1),
              Budget(3, 2, 1, 0, 2, 0)}
=============================================================================
