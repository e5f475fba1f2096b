------------------------------ MODULE MCOwners ------------------------------
(***************************************************************************)
(* Activation and Binding side by side.  They share no state, so that a    *)
(* behaviour runs one of them: interleaving the two would multiply states  *)
(* and add nothing.                                                        *)
(***************************************************************************)
EXTENDS Activation, Binding, TLC

VARIABLE part

ownersVars == <<part, activationVars, bindingVars>>

OwnersInit == part \in {"activation", "binding"} /\ ActivationInit /\ BindingInit

OwnersNext ==
    \/ part = "activation" /\ ActivationNext /\ UNCHANGED <<part, bindingVars>>
    \/ part = "binding" /\ BindingNext /\ UNCHANGED <<part, activationVars>>

OwnersSpec == OwnersInit /\ [][OwnersNext]_ownersVars

\* The types of the two components' states.
OwnersTypeOK == ActivationTypeOK /\ BindingTypeOK

Symmetry == Permutations(Jobs) \cup Permutations(Identities) \cup Permutations(Users)
                \cup Permutations(Named)
=============================================================================
