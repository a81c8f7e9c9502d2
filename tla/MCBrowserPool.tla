---------------------------- MODULE MCBrowserPool ----------------------------
(* Instances of BrowserPool for TLC: tasks of one kind are interchangeable.*)
EXTENDS BrowserPool, TLC

TaskSymmetry == Permutations(Fetchers) \union Permutations(Messengers)
=============================================================================
