------------------------------ MODULE MCRestarts ------------------------------
(***************************************************************************)
(* Two parts whose state is built up again while they run, in one run: the *)
(* backend manager over reloads and failovers (BackendManager), the        *)
(* accounts of the Jarvis server over crashes and starts (JarvisAccounts). *)
(* They share no state: the first state says which of them moves, the      *)
(* other stays in one initial state of its own, and the states of the run  *)
(* are those of the two one after the other, not their product.            *)
(***************************************************************************)
EXTENDS MCBackendManager, JarvisAccounts

VARIABLE moves

FirstMachine == CHOOSE ids \in Machines : TRUE

RestartsInit ==
  /\ moves \in {"manager", "accounts"}
  /\ Init /\ AccountsInit
  /\ moves # "manager" => Found = FirstMachine

RestartsNext ==
  \/ moves = "manager" /\ Next /\ UNCHANGED <<moves, accountsVars>>
  \/ moves = "accounts" /\ AccountsNext /\ UNCHANGED <<moves, vars>>

restartsVars == <<moves, vars, accountsVars>>

RestartsSpec == RestartsInit /\ [][RestartsNext]_restartsVars
===============================================================================
