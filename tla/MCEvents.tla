------------------------------ MODULE MCEvents ------------------------------
(* An iterator or a subscription, for every event of the bindings, with    *)
(* two addresses and every list a caller may pass of them.                 *)
EXTENDS EventIterator

CONSTANTS
  WatchesMade,   \* the Watch calls: [query, wanted], wanted by parameter name
  Alice, Bob

ASSUME WatchAssumption == WatchesMade \subseteq WatchCalls(SUBSET Address)

VARIABLES mode, wcaller, wcall, wemitted, wforwarded, winner, wwatcher, wtaken, wquit, werr,
          wdelivered

W == INSTANCE EventWatcher WITH
  Calls <- WatchesMade,
  caller <- wcaller, call <- wcall, emitted <- wemitted, forwarded <- wforwarded,
  inner <- winner, watcher <- wwatcher, taken <- wtaken, quit <- wquit, err <- werr,
  delivered <- wdelivered

MCAddress == {Alice, Bob}

Lists == {{}, {Alice}}

MCFilterCalls == FilterCalls(Lists)
MCWatchCalls  == WatchCalls(Lists)

wvars ==
  <<wcaller, wcall, wemitted, wforwarded, winner, wwatcher, wtaken, wquit, werr, wdelivered>>
allVars == <<mode, vars, wvars>>

MCInit == mode \in {"filter", "watch"} /\ Init /\ W!Init

MCNext ==
  \/ mode = "filter" /\ Next /\ UNCHANGED <<mode, wvars>>
  \/ mode = "watch" /\ W!Next /\ UNCHANGED <<mode, vars>>

MCSpec == MCInit /\ [][MCNext]_allVars /\ Fairness /\ W!Fairness

\* The properties of the subscriptions, under their names in EventWatcher.
WatcherImplementsStream == W!ImplementsStream
WatcherDeliversWanted   == W!DeliversWanted
UnsubscribeEnds         == W!UnsubscribeEnds
FailureIsShown          == W!FailureIsShown
=============================================================================
