-------------------------------- MODULE Access --------------------------------
(***************************************************************************)
(* Who takes part: wallets prove themselves with one-time challenges,        *)
(* register an organization or open a session, operators decide who is       *)
(* eligible, and console commands admit operators and open network accounts  *)
(* for investors.  Transactions are READ COMMITTED: what a request read may  *)
(* be old when it commits, and only conditional writes and unique keys stop  *)
(* it.  Bids are here as far as eligibility decides about them.              *)
(***************************************************************************)
EXTENDS Naturals

CONSTANTS
    Wallets,
    Challenges,       \* nonces; a session is known by the challenge that opened it
    Accounts,         \* accounts the network can create
    Requests,         \* bound: requests under way at once
    Commands,         \* bound: chain-accounts commands under way at once
    MaxVersion,       \* bound: versions an organization goes through
    AutoApprove,      \* registration grants eligibility (development)
    Nobody

ASSUME AccessAssumption ==
    /\ Nobody \notin Wallets \cup Challenges \cup Accounts
    /\ AutoApprove \in BOOLEAN /\ MaxVersion \in Nat

VARIABLES
    challenge,   \* the table of challenges, by nonce
    session,     \* the table of sessions, by the challenge each was opened with
    org,         \* the table of organizations, by wallet: the wallet is unique
    call,        \* requests under way, with the row they read
    command,     \* chain-accounts commands under way, with the list they read
    opened,      \* the network: whom each account was opened for
    bids, bought, \* wallets with an active bid, and those that were allocated something
    exchanged,   \* history: what each challenge was exchanged for, how often
    decided      \* history: the last word on each wallet's eligibility

vars == <<challenge, session, org, call, command, opened, bids, bought, exchanged, decided>>

NoOrg == [type |-> "NONE", eligibility |-> "PENDING", account |-> Nobody, version |-> 0]
NoChallenge == [state |-> "NONE", wallet |-> Nobody]
Idle == [step |-> "idle", challenge |-> Nobody, wallet |-> Nobody, asks |-> "none",
         eligible |-> FALSE, operator |-> FALSE, row |-> NoOrg]
NoCommand == [step |-> "idle", list |-> {}, at |-> Nobody, row |-> NoOrg, account |-> Nobody]

Init ==
    /\ challenge = [c \in Challenges |-> NoChallenge]
    /\ session = [c \in Challenges |-> "NONE"]
    /\ org = [w \in Wallets |-> NoOrg]
    /\ call = [r \in Requests |-> Idle]
    /\ command = [p \in Commands |-> NoCommand]
    /\ opened = [a \in Accounts |-> Nobody]
    /\ bids = {} /\ bought = {}
    /\ exchanged = [c \in Challenges |-> 0]
    /\ decided = [w \in Wallets |-> "PENDING"]

-------------------------------------------------------------------------------
(* Rows and their guards *)

Market == <<bids, bought>>
Network == <<command, opened>>

\* A challenge is good once and for ChallengeTTL.
IsOpen(c) == challenge[c].state = "OPEN"

\* ConsumeChallenge: the update names the challenge that is not consumed yet.
\* Mutation: the update names the challenge alone.
MutConsumeAny(c) == TRUE
NotConsumed(c) == challenge[c].state # "CONSUMED"

Consume(c) ==
    /\ NotConsumed(c)
    /\ challenge' = [challenge EXCEPT ![c].state = "CONSUMED"]
    /\ exchanged' = [exchanged EXCEPT ![c] = @ + 1]

\* organization.New, and Create under the unique wallet.
WalletIsFree(w) == org[w] = NoOrg

NewOrganization(type, eligible) ==
    [type |-> type, eligibility |-> IF eligible THEN "ELIGIBLE" ELSE "PENDING",
     account |-> Nobody, version |-> IF eligible THEN 2 ELSE 1]

\* Update: nothing is written when the organization has moved since it was read.
\* Mutation: the version is not compared.
MutAnyVersion(w, row) == TRUE
OrgUnmoved(w, row) == org[w].version = row.version

\* Approve and Reject are refused when they would change nothing.
Decidable(row, verdict) == row # NoOrg /\ row.eligibility # verdict
AfterDecision(row, verdict) == [row EXCEPT !.eligibility = verdict, !.version = @ + 1]

\* AttachChainAccount.
WithAccount(row, a) == [row EXCEPT !.account = a, !.version = @ + 1]

\* ByWallet: what a request may do is read from its organization.
ActorFor(w) == [Idle EXCEPT !.step = "actor", !.wallet = w,
                !.eligible = (org[w].eligibility = "ELIGIBLE"), !.operator = (org[w].type = "OPERATOR")]

EndCall(r) == call' = [call EXCEPT ![r] = Idle]

-------------------------------------------------------------------------------
(* Signing *)

\* Challenge: for any wallet, known or not.
IssueChallenge(c, w) ==
    /\ challenge[c] = NoChallenge
    /\ challenge' = [challenge EXCEPT ![c] = [state |-> "OPEN", wallet |-> w]]
    /\ UNCHANGED <<session, org, call, exchanged, decided>> /\ UNCHANGED Network /\ UNCHANGED Market

ExpireChallenge(c) ==
    /\ IsOpen(c)
    /\ challenge' = [challenge EXCEPT ![c].state = "EXPIRED"]
    /\ UNCHANGED <<session, org, call, exchanged, decided>> /\ UNCHANGED Network /\ UNCHANGED Market

\* Register, up to its writes: the challenge is open and was signed by its wallet.
MayRegister(type) == type # "OPERATOR"

ReadToRegister(r, c, type) ==
    /\ call[r] = Idle /\ MayRegister(type) /\ IsOpen(c)
    /\ call' = [call EXCEPT ![r] = [Idle EXCEPT !.step = "register", !.challenge = c,
                                     !.wallet = challenge[c].wallet, !.asks = type]]
    /\ UNCHANGED <<challenge, session, org, exchanged, decided>> /\ UNCHANGED Network /\ UNCHANGED Market

\* Register commits: challenge and organization, or neither.
Register(r) ==
    LET w == call[r].wallet
        new == NewOrganization(call[r].asks, AutoApprove) IN
    /\ call[r].step = "register" /\ Consume(call[r].challenge) /\ WalletIsFree(w)
    /\ org' = [org EXCEPT ![w] = new]
    /\ decided' = [decided EXCEPT ![w] = new.eligibility]
    /\ EndCall(r)
    /\ UNCHANGED <<session>> /\ UNCHANGED Network /\ UNCHANGED Market

\* Verify, up to its writes: the wallet must belong to an organization.
ReadToVerify(r, c) ==
    /\ call[r] = Idle /\ IsOpen(c) /\ ~WalletIsFree(challenge[c].wallet)
    /\ call' = [call EXCEPT ![r] = [Idle EXCEPT !.step = "verify", !.challenge = c,
                                     !.wallet = challenge[c].wallet]]
    /\ UNCHANGED <<challenge, session, org, exchanged, decided>> /\ UNCHANGED Network /\ UNCHANGED Market

\* A session is minted for the wallet that signed; its row is found by the digest of its token.
NewSession(c) == [session EXCEPT ![c] = "ACTIVE"]
GetSession(c) == session[c] = "ACTIVE"

\* Verify commits: challenge and session, or neither.
Verify(r) ==
    /\ call[r].step = "verify" /\ Consume(call[r].challenge)
    /\ session' = NewSession(call[r].challenge)
    /\ EndCall(r)
    /\ UNCHANGED <<org, decided>> /\ UNCHANGED Network /\ UNCHANGED Market

\* Logout, or SessionTTL passes; revoking twice changes nothing.
EndSession(c) ==
    /\ GetSession(c)
    /\ session' = [session EXCEPT ![c] = "ENDED"]
    /\ UNCHANGED <<challenge, org, call, exchanged, decided>> /\ UNCHANGED Network /\ UNCHANGED Market

\* Resolve: the organization is read once for the whole request.
Resolve(r, c) ==
    /\ call[r] = Idle /\ GetSession(c)
    /\ call' = [call EXCEPT ![r] = ActorFor(challenge[c].wallet)]
    /\ UNCHANGED <<challenge, session, org, exchanged, decided>> /\ UNCHANGED Network /\ UNCHANGED Market

\* A refusal, a failed write, a caller that has gone: the transaction leaves nothing behind.
GiveUp(r) ==
    /\ call[r] # Idle /\ EndCall(r)
    /\ UNCHANGED <<challenge, session, org, exchanged, decided>> /\ UNCHANGED Network /\ UNCHANGED Market

-------------------------------------------------------------------------------
(* Eligibility *)

\* decide: only an operator; the organization is read in the transaction that changes it.
ReadToDecide(r, w, verdict) ==
    /\ call[r].step = "actor" /\ call[r].operator /\ Decidable(org[w], verdict)
    /\ org[w].version < MaxVersion
    /\ call' = [call EXCEPT ![r].step = "decide", ![r].wallet = w, ![r].asks = verdict, ![r].row = org[w]]
    /\ UNCHANGED <<challenge, session, org, exchanged, decided>> /\ UNCHANGED Network /\ UNCHANGED Market

Decide(r) ==
    LET w == call[r].wallet IN
    /\ call[r].step = "decide" /\ OrgUnmoved(w, call[r].row)
    /\ org' = [org EXCEPT ![w] = AfterDecision(call[r].row, call[r].asks)]
    /\ decided' = [decided EXCEPT ![w] = call[r].asks]
    /\ EndCall(r)
    /\ UNCHANGED <<challenge, session, exchanged>> /\ UNCHANGED Network /\ UNCHANGED Market

\* PlaceBid, as far as it asks who is bidding.
Bid(r) ==
    /\ call[r].step = "actor" /\ call[r].eligible
    /\ bids' = bids \cup {call[r].wallet} /\ EndCall(r)
    /\ UNCHANGED <<challenge, session, org, exchanged, decided, bought>> /\ UNCHANGED Network

\* ClearAuction reads the active bids and asks nothing about who placed them.
Allocate(w) ==
    /\ w \in bids
    /\ bids' = bids \ {w} /\ bought' = bought \cup {w}
    /\ UNCHANGED <<challenge, session, org, call, exchanged, decided>> /\ UNCHANGED Network

-------------------------------------------------------------------------------
(* The console *)

\* makeOperator: a wallet that acts for somebody is left as it is.
MakeOperator(w) ==
    LET new == NewOrganization("OPERATOR", TRUE) IN
    /\ WalletIsFree(w)
    /\ org' = [org EXCEPT ![w] = new]
    /\ decided' = [decided EXCEPT ![w] = new.eligibility]
    /\ UNCHANGED <<challenge, session, call, exchanged>> /\ UNCHANGED Network /\ UNCHANGED Market

\* openChainAccounts reads the investors once; those that have an account are passed over.
Lacking == {w \in Wallets : org[w].type = "INVESTOR" /\ org[w].account = Nobody}

ListInvestors(p) ==
    /\ command[p] = NoCommand /\ Lacking # {}
    /\ command' = [command EXCEPT ![p] = [NoCommand EXCEPT !.step = "listed",
                                          !.list = {[wallet |-> w, row |-> org[w]] : w \in Lacking}]]
    /\ UNCHANGED <<challenge, session, org, call, opened, exchanged, decided>> /\ UNCHANGED Market

\* The account is created outside any transaction.
OpenAccount(p, entry, a) ==
    /\ command[p].step = "listed" /\ entry \in command[p].list /\ opened[a] = Nobody
    /\ opened' = [opened EXCEPT ![a] = entry.wallet]
    /\ command' = [command EXCEPT ![p] = [step |-> "opened", list |-> @.list \ {entry},
                                          at |-> entry.wallet, row |-> entry.row, account |-> a]]
    /\ UNCHANGED <<challenge, session, org, call, exchanged, decided>> /\ UNCHANGED Market

RecordAccount(p) ==
    LET w == command[p].at
        left == command[p].list IN
    /\ command[p].step = "opened" /\ OrgUnmoved(w, command[p].row)
    /\ org' = [org EXCEPT ![w] = WithAccount(command[p].row, command[p].account)]
    /\ command' = [command EXCEPT ![p] = IF left = {} THEN NoCommand
                                         ELSE [NoCommand EXCEPT !.step = "listed", !.list = left]]
    /\ UNCHANGED <<challenge, session, call, opened, exchanged, decided>> /\ UNCHANGED Market

\* Any failure ends the command, and with it what it knew of the account it had opened.
StopCommand(p) ==
    /\ command[p] # NoCommand
    /\ command' = [command EXCEPT ![p] = NoCommand]
    /\ UNCHANGED <<challenge, session, org, call, opened, exchanged, decided>> /\ UNCHANGED Market

Next ==
    \/ \E c \in Challenges :
          \/ ExpireChallenge(c) \/ EndSession(c)
          \/ \E w \in Wallets : IssueChallenge(c, w)
          \/ \E r \in Requests :
                \/ ReadToVerify(r, c) \/ Resolve(r, c)
                \/ \E type \in {"ISSUER", "INVESTOR", "OPERATOR"} : ReadToRegister(r, c, type)
    \/ \E r \in Requests :
          \/ Register(r) \/ Verify(r) \/ Decide(r) \/ Bid(r) \/ GiveUp(r)
          \/ \E w \in Wallets, verdict \in {"ELIGIBLE", "REJECTED"} : ReadToDecide(r, w, verdict)
    \/ \E w \in Wallets : MakeOperator(w) \/ Allocate(w)
    \/ \E p \in Commands :
          \/ ListInvestors(p) \/ RecordAccount(p) \/ StopCommand(p)
          \/ \E entry \in command[p].list, a \in Accounts : OpenAccount(p, entry, a)

Spec == Init /\ [][Next]_vars

-------------------------------------------------------------------------------
(* Properties *)

Organization == [type : {"NONE", "ISSUER", "INVESTOR", "OPERATOR"},
                 eligibility : {"PENDING", "ELIGIBLE", "REJECTED"},
                 account : Accounts \cup {Nobody}, version : Nat]

\* Rows, requests and commands keep their types, and only investors have accounts.
TypeOK ==
    /\ challenge \in [Challenges -> [state : {"NONE", "OPEN", "EXPIRED", "CONSUMED"},
                                     wallet : Wallets \cup {Nobody}]]
    /\ session \in [Challenges -> {"NONE", "ACTIVE", "ENDED"}]
    /\ org \in [Wallets -> Organization]
    /\ call \in [Requests -> [step : {"idle", "register", "verify", "actor", "decide"},
                              challenge : Challenges \cup {Nobody}, wallet : Wallets \cup {Nobody},
                              asks : {"none", "ISSUER", "INVESTOR", "OPERATOR", "ELIGIBLE", "REJECTED"},
                              eligible : BOOLEAN, operator : BOOLEAN, row : Organization]]
    /\ command \in [Commands -> [step : {"idle", "listed", "opened"},
                                 list : SUBSET [wallet : Wallets, row : Organization],
                                 at : Wallets \cup {Nobody}, row : Organization,
                                 account : Accounts \cup {Nobody}]]
    /\ opened \in [Accounts -> Wallets \cup {Nobody}]
    /\ \A w \in Wallets : org[w].account # Nobody => org[w].type = "INVESTOR"
    /\ bids \subseteq Wallets /\ bought \subseteq Wallets
    /\ exchanged \in [Challenges -> Nat] /\ decided \in [Wallets -> {"PENDING", "ELIGIBLE", "REJECTED"}]

\* One signature, one result: a challenge that was consumed bought exactly one session or one
\* registration, and one that was not has bought nothing, however many requests race with it and
\* whichever of their writes is refused.
ChallengeBuysOnce ==
    \A c \in Challenges :
        /\ exchanged[c] = IF challenge[c].state = "CONSUMED" THEN 1 ELSE 0
        /\ session[c] # "NONE" => challenge[c].state = "CONSUMED" /\ org[challenge[c].wallet] # NoOrg

\* An organization is as eligible as the last decision about it said: neither another operator nor
\* a command that opens accounts writes back what it read before the decision.
EligibilityIsAsDecided == \A w \in Wallets : org[w].eligibility = decided[w]

\* Tokens of an investor go to the account that was opened for it, and to the
\* same one for ever: two chain-accounts commands may open two accounts for one
\* wallet, and only one of them may be kept (cmd/factorflow/main.go:212-290).
AccountIsForGood ==
    [][\A w \in Wallets : org'[w].account # org[w].account =>
          org[w].account = Nobody /\ opened[org'[w].account] = w]_vars
===============================================================================
