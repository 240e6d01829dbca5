\* Components that share no state, liveness with the fairness it needs.
SPECIFICATION PartsSpec
PROPERTIES LinkLive FetchLive StoreLive ConfigLive OldLinksGo VfsLive WindowLive
CHECK_DEADLOCK FALSE
