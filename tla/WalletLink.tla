----------------------------- MODULE WalletLink -----------------------------
(***************************************************************************)
(* Linking wallets to accounts: WalletService and SolanaWalletService      *)
(* (apps/api/src/identity/wallet.service.ts, solana-wallet.service.ts) and *)
(* accountToResume (account-adoption.ts).                                  *)
(*                                                                         *)
(* A session asks for a challenge, signs it with the key of the address    *)
(* and sends it back, perhaps more than once.  The verification checks the *)
(* challenge, consumes it, looks whose the wallet is and whether the       *)
(* session's account is empty, and links the wallet or resumes the account *)
(* it belongs to.  EVM and Solana addresses are handled alike.             *)
(***************************************************************************)
EXTENDS Integers, FiniteSets

CONSTANTS
  Accounts, Addresses,
  LinkRequests,    \* concurrent verifications
  MaxChallenges,   \* bound: challenges issued
  NoAccount, NoAddress

ASSUME WalletLinkAssumption ==
  MaxChallenges \in Nat /\ NoAccount \notin Accounts /\ NoAddress \notin Addresses

VARIABLES
  challengeRow,  \* the challenges issued: account, address, used, expired
  walletOwner,   \* Wallet.userId of each address (verifiedAt is set with it)
  settled,       \* accounts with a username or a trade
  linkTask,      \* what each verification remembers
  outcomes       \* history: per challenge, the verifications that got past it

linkVars == <<challengeRow, walletOwner, settled, linkTask, outcomes>>

Challenge == 1..MaxChallenges
Owner == Accounts \cup {NoAccount}
Address == Addresses \cup {NoAddress}

LinkTypeOK ==
  /\ challengeRow \in [Challenge -> [account: Owner, address: Address,
                                     used: BOOLEAN, expired: BOOLEAN]]
  /\ walletOwner \in [Addresses -> Owner]
  /\ settled \subseteq Accounts
  /\ linkTask \in [LinkRequests ->
       [pc: {"idle", "consume", "owner", "empty", "resume", "link"},
        account: Owner, challenge: Challenge \cup {0}, owner: Owner,
        raced: BOOLEAN]]   \* history: an account changed since the owner was read
  /\ outcomes \in [Challenge -> Nat]

NoChallenge == [account |-> NoAccount, address |-> NoAddress, used |-> FALSE, expired |-> FALSE]
IdleLink == [pc |-> "idle", account |-> NoAccount, challenge |-> 0, owner |-> NoAccount,
             raced |-> FALSE]

LinkInit ==
  /\ challengeRow = [c \in Challenge |-> NoChallenge]
  /\ walletOwner = [a \in Addresses |-> NoAccount]
  /\ settled = {}
  /\ linkTask = [r \in LinkRequests |-> IdleLink]
  /\ outcomes = [c \in Challenge |-> 0]

\* A step of r; the others notice when it changes an account.
LinkGoes(r, task, changes) ==
  linkTask' = [s \in LinkRequests |->
    IF s = r THEN task
    ELSE IF changes /\ linkTask[s].pc \in {"empty", "resume", "link"}
         THEN [linkTask[s] EXCEPT !.raced = TRUE] ELSE linkTask[s]]

AddressOf(r) == challengeRow[linkTask[r].challenge].address

-----------------------------------------------------------------------------
createChallenge(u, a) ==
  LET fresh == {c \in Challenge : challengeRow[c] = NoChallenge}
      id == CHOOSE c \in fresh : \A d \in fresh : c <= d
  IN /\ fresh # {}
     /\ challengeRow' = [challengeRow EXCEPT ![id] =
                           [NoChallenge EXCEPT !.account = u, !.address = a]]
     /\ UNCHANGED <<walletOwner, settled, linkTask, outcomes>>

\* A mutant: any session may use the challenge.
verifyChallenge_AnySession(r, u, c) ==
  /\ linkTask[r].pc = "idle"
  /\ challengeRow[c].account # NoAccount /\ ~challengeRow[c].expired
  /\ LinkGoes(r, [IdleLink EXCEPT !.pc = "consume", !.account = u, !.challenge = c], FALSE)
  /\ UNCHANGED <<challengeRow, walletOwner, settled, outcomes>>

\* The challenge is this session's and has not expired, and the signature over it
\* is the address's.
verifyChallenge(r, u, c) ==
  /\ linkTask[r].pc = "idle"
  /\ challengeRow[c].account = u /\ ~challengeRow[c].expired
  /\ LinkGoes(r, [IdleLink EXCEPT !.pc = "consume", !.account = u, !.challenge = c], FALSE)
  /\ UNCHANGED <<challengeRow, walletOwner, settled, outcomes>>

\* A mutant: usedAt is set whatever it was.
Consume_Unconditional(r) ==
  LET c == linkTask[r].challenge
  IN /\ linkTask[r].pc = "consume"
     /\ challengeRow' = [challengeRow EXCEPT ![c].used = TRUE]
     /\ outcomes' = [outcomes EXCEPT ![c] = @ + 1]
     /\ LinkGoes(r, [linkTask[r] EXCEPT !.pc = "owner"], FALSE)
     /\ UNCHANGED <<walletOwner, settled>>

\* updateMany where usedAt is null.
Consume(r) ==
  LET c == linkTask[r].challenge
  IN /\ linkTask[r].pc = "consume"
     /\ IF challengeRow[c].used
        THEN LinkGoes(r, IdleLink, FALSE) /\ UNCHANGED <<challengeRow, outcomes>>
        ELSE /\ challengeRow' = [challengeRow EXCEPT ![c].used = TRUE]
             /\ outcomes' = [outcomes EXCEPT ![c] = @ + 1]
             /\ LinkGoes(r, [linkTask[r] EXCEPT !.pc = "owner"], FALSE)
     /\ UNCHANGED <<walletOwner, settled>>

\* accountToResume: whose is the wallet?
ReadOwner(r) ==
  LET owner == walletOwner[AddressOf(r)]
  IN /\ linkTask[r].pc = "owner"
     /\ LinkGoes(r, IF owner \in {NoAccount, linkTask[r].account}
                    THEN [linkTask[r] EXCEPT !.pc = "link"]
                    ELSE [linkTask[r] EXCEPT !.pc = "empty", !.owner = owner], FALSE)
     /\ UNCHANGED <<challengeRow, walletOwner, settled, outcomes>>

\* A mutant: everybody's verified wallets are counted.
Empty_CountsAll(u) == u \notin settled /\ \A a \in Addresses : walletOwner[a] = NoAccount

\* No username, no trade and no verified wallet.
Empty(u) == u \notin settled /\ \A a \in Addresses : walletOwner[a] # u

\* ... and is the session's account empty?
ReadEmptiness(r) ==
  /\ linkTask[r].pc = "empty"
  /\ LinkGoes(r, [linkTask[r] EXCEPT !.pc = IF Empty(linkTask[r].account) THEN "resume"
                                            ELSE "link"], FALSE)
  /\ UNCHANGED <<challengeRow, walletOwner, settled, outcomes>>

\* wallet.update of lastUsedAt; the session becomes the account's that was read.
Resume(r) ==
  /\ linkTask[r].pc = "resume"
  /\ LinkGoes(r, IdleLink, FALSE)
  /\ UNCHANGED <<challengeRow, walletOwner, settled, outcomes>>

\* wallet.upsert.
Link(r) ==
  /\ linkTask[r].pc = "link"
  /\ walletOwner' = [walletOwner EXCEPT ![AddressOf(r)] = linkTask[r].account]
  /\ LinkGoes(r, IdleLink, TRUE)
  /\ UNCHANGED <<challengeRow, settled, outcomes>>

LinkDies(r) ==
  /\ linkTask[r].pc # "idle"
  /\ LinkGoes(r, IdleLink, FALSE)
  /\ UNCHANGED <<challengeRow, walletOwner, settled, outcomes>>

-----------------------------------------------------------------------------
unlinkWallet(u, a) ==
  /\ walletOwner[a] = u
  /\ walletOwner' = [walletOwner EXCEPT ![a] = NoAccount]
  /\ linkTask' = [r \in LinkRequests |-> [linkTask[r] EXCEPT
                    !.raced = @ \/ linkTask[r].pc \in {"empty", "resume", "link"}]]
  /\ UNCHANGED <<challengeRow, settled, outcomes>>

\* The account gets a username or makes its first trade.
Settle(u) ==
  /\ u \notin settled
  /\ settled' = settled \cup {u}
  /\ UNCHANGED <<challengeRow, walletOwner, linkTask, outcomes>>

\* WALLET_CHALLENGE_TTL_MINUTES.
ChallengeExpires(c) ==
  /\ challengeRow[c].account # NoAccount /\ ~challengeRow[c].expired
  /\ challengeRow' = [challengeRow EXCEPT ![c].expired = TRUE]
  /\ UNCHANGED <<walletOwner, settled, linkTask, outcomes>>

LinkNext ==
  \/ \E u \in Accounts, a \in Addresses : createChallenge(u, a) \/ unlinkWallet(u, a)
  \/ \E r \in LinkRequests :
       \/ \E u \in Accounts, c \in Challenge : verifyChallenge(r, u, c)
       \/ Consume(r) \/ ReadOwner(r) \/ ReadEmptiness(r) \/ Resume(r) \/ Link(r)
       \/ LinkDies(r)
  \/ \E u \in Accounts : Settle(u)
  \/ \E c \in Challenge : ChallengeExpires(c)

LinkSpec == LinkInit /\ [][LinkNext]_linkVars

-----------------------------------------------------------------------------
(* Properties. *)

\* A signed challenge works once: of two verifications that send it at the same
\* time, one at most gets past it ("Guards a concurrent double-verify race on the
\* same nonce", wallet.service.ts:94-104).
ChallengeWorksOnce == \A c \in Challenge : outcomes[c] <= 1

\* A wallet is linked only to an account whose own session proved control of the
\* address, whatever links, unlinks and repeated requests came before ("only the
\* session that requested a challenge can ever consume it", wallet.service.ts:40-41).
LinkWasProven ==
  \A a \in Addresses : walletOwner[a] # NoAccount =>
    \E c \in Challenge : /\ challengeRow[c].used
                         /\ challengeRow[c].address = a
                         /\ challengeRow[c].account = walletOwner[a]

\* An empty account does not take a wallet away from the account it belongs to,
\* except in a race: some wallet was linked or unlinked between the look at the
\* two accounts and the link (account-adoption.ts:3-13).
EmptyAccountTakesNothing ==
  [][\A a \in Addresses :
       walletOwner[a] # NoAccount /\ walletOwner'[a] \notin {NoAccount, walletOwner[a]} =>
         \/ walletOwner'[a] \in settled \cup {walletOwner[b] : b \in Addresses}
         \/ \E r \in LinkRequests : linkTask[r].pc = "link" /\ linkTask[r].raced]_linkVars

\* A challenge works once, and a link rests on one its own account was given.
LinkSafety == ChallengeWorksOnce /\ LinkWasProven
=============================================================================
