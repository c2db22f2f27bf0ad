-------------------------- MODULE MediationManager --------------------------
(***************************************************************************)
(* MediationManagerPlugin (mediation-manager.ts): the three key-value      *)
(* stores of a mediator that speaks version 3 of the coordination protocol.*)
(* The other mediation modules extend this one: an operation is the action *)
(* that changes its store and says nothing of the other variables.         *)
(***************************************************************************)
EXTENDS Naturals, Sequences, FiniteSets

CONSTANTS
  DIDs,         \* DIDs of requesters and recipients
  NONE          \* what a store returns for a key it does not hold

ASSUME NoneAssumption == NONE \notin DIDs \union {"ALLOW", "DENY", "GRANTED", "DENIED"}

VARIABLES
  policies,       \* preRequestPolicyStore: requester -> policy
  mediations,     \* mediationResponseStore: requester -> recorded response
  recipientDids   \* recipientDidStore: recipient DID -> the requester that added it

managerVars == <<policies, mediations, recipientDids>>

Policies == {"ALLOW", "DENY"}
Responses == {"GRANTED", "DENIED"}

ManagerTypeOK ==
  /\ policies \in [DIDs -> Policies \union {NONE}]
  /\ mediations \in [DIDs -> Responses \union {NONE}]
  /\ recipientDids \in [DIDs -> DIDs \union {NONE}]

ManagerInit ==
  /\ policies = [d \in DIDs |-> NONE]
  /\ mediations = [d \in DIDs |-> NONE]
  /\ recipientDids = [d \in DIDs |-> NONE]

SaveMediationPolicy(d, policy) == policies' = [policies EXCEPT ![d] = policy]
RemoveMediationPolicy(d) == policies' = [policies EXCEPT ![d] = NONE]

SaveMediation(d, status) == mediations' = [mediations EXCEPT ![d] = status]
RemoveMediation(d) == mediations' = [mediations EXCEPT ![d] = NONE]

AddRecipientDid(requester, d) == recipientDids' = [recipientDids EXCEPT ![d] = requester]
RemoveRecipientDid(d) == recipientDids' = [recipientDids EXCEPT ![d] = NONE]

IsMediationGranted(d) == recipientDids[d] # NONE
RegisteredBy(requester, d) == recipientDids[d] = requester

==============================================================================
