------------------------------- MODULE MCRecords -------------------------------
(***************************************************************************)
(* Model-checking instance of three parts of the account's records that    *)
(* share no state: the mirrors of its items and of its orders (Catalog),   *)
(* its conversations (Replies) and its credentials (Credentials).  Each    *)
(* behaviour is about one of them, and the rest stands still.              *)
(***************************************************************************)
EXTENDS Catalog, Replies, Credentials

CONSTANTS named, nameless

\* In Replies, the account's own rule comes before a global one that accepts any
\* message, of which one has no id.
MCMsgs     == {named, nameless}
MCNameless == {nameless}
MCMatches  == {<<1, named>>, <<2, named>>, <<2, nameless>>}

VARIABLE part

mcVars == <<catalogVars, vars, credentialVars, part>>

\* Bound: without a whole cookie the platform's list is a full page at first.
FullPage == session # "whole" => Len(list[part]) = PageSize

MCInit ==
  /\ CatalogInit /\ Init /\ CredentialInit
  /\ part \in Kinds \cup {"replies", "credentials"}
  /\ \A k \in Kinds \ {part} : list[k] = <<>>
  /\ IF part \in Kinds THEN FullPage ELSE session = "whole"

\* Which sync is which makes no difference, nor which command: this one begins
\* unless it is at work.
FirstOf(S) == CHOOSE p \in S : TRUE

\* One of the mirrors.
MirrorNext ==
  /\ part \in Kinds /\ CatalogNext
  /\ \A p \in Syncs \ {FirstOf(Syncs)} :
       SyncAt(p, "idle") /\ ~SyncAt(p, "idle")' => ~SyncAt(FirstOf(Syncs), "idle")
  /\ \A k \in Kinds \ {part} : list'[k] = <<>>
  /\ \A p \in Syncs : sync'[p] # NoSync => sync'[p].kind = part
  /\ UNCHANGED <<vars, credentialVars>>

\* Bound: pushes without an id come where no message has been kept, of the text
\* of `message send`.
Unkeyed ==
  \/ \E p \in Procs : (At(p, "keep") \/ At(p, "add")) /\ job[p].of = "bare push"
  \/ \E i \in Tries : Keyed(i) # DOMAIN out[i]

\* Bound: a message that finds its rule once all texts are used up is not followed.
Follows == \A w \in Workers : At(w, "match") /\ At(w, "hit")' => Len(tries) < MaxTries

ConversationNext ==
  /\ part = "replies" /\ Next /\ (inbound' = <<>> \/ ~Unkeyed') /\ Follows
  /\ UNCHANGED <<catalogVars, credentialVars>>

ExchangeNext ==
  /\ part = "credentials" /\ CredentialNext
  /\ \A p \in Commands \ {FirstOf(Commands)} :
       CallAt(p, "idle") /\ ~CallAt(p, "idle")' => ~CallAt(FirstOf(Commands), "idle")
  /\ UNCHANGED <<catalogVars, vars>>

MCNext == (MirrorNext \/ ConversationNext \/ ExchangeNext) /\ UNCHANGED part

MCSpec == MCInit /\ [][MCNext]_mcVars
=============================================================================
