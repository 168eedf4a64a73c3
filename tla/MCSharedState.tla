----------------------------- MODULE MCSharedState -----------------------------
(***************************************************************************)
(* What processes and threads share: mappings, locks between processes,    *)
(* the watcher sessions, the table of sniffers, what the C library keeps   *)
(* for calls that list, what requests of files hold on to.  The six parts  *)
(* share no state with each other, so a behaviour is one of a single part, *)
(* chosen at the start: each has the states it has alone, not their        *)
(* product.                                                                *)
(***************************************************************************)
EXTENDS SharedMapping, NamedLocks, Watcher, Sniffers, NativeLists, AsyncFiles

VARIABLE part (* the part this behaviour is about                          *)

Init ==
  /\ part \in {"mapping", "locks", "watcher", "sniffers", "lists", "files"}
  /\ MappingInit /\ LocksInit /\ WatcherInit /\ SniffersInit /\ ListsInit
  /\ AsyncFilesInit
  /\ part # "lists" => ~windows

Only(p) ==
  /\ part = p /\ UNCHANGED part
  /\ p # "mapping" => UNCHANGED mappingVars
  /\ p # "locks" => UNCHANGED lockVars
  /\ p # "watcher" => UNCHANGED watcherVars
  /\ p # "sniffers" => UNCHANGED sniffersVars
  /\ p # "lists" => UNCHANGED listsVars
  /\ p # "files" => UNCHANGED asyncFilesVars

Next ==
  \/ Only("mapping") /\ MappingNext
  \/ Only("locks") /\ LocksNext
  \/ Only("watcher") /\ WatcherNext
  \/ Only("sniffers") /\ SniffersNext
  \/ Only("lists") /\ ListsNext
  \/ Only("files") /\ AsyncFilesNext

Spec == Init /\ [][Next]_<<part, mappingVars, lockVars, watcherVars, sniffersVars,
                        listsVars, asyncFilesVars>>

Symmetry == Permutations(ShmObjects) \cup Permutations(Addresses)
=============================================================================
