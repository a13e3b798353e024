------------------------------- MODULE Guard -------------------------------
(***************************************************************************)
(* The hub's admission control, package guard: the rolling window on the   *)
(* connections of an address, the counting of its failed authentications,  *)
(* the bans that follow and the sweep that forgets quiet addresses.  The   *)
(* hub (Hub.handleAgent, Hub.handleEnroll) and the web interface's login   *)
(* (Server.handleLogin) use it the same way: AllowConnection first, and    *)
(* RecordAuthFailure or RecordAuthSuccess when the credential has been     *)
(* looked at, with other connections of the address in between.            *)
(*                                                                         *)
(* Time is a counter; what the code does at an instant depends on it only  *)
(* through comparisons.                                                    *)
(***************************************************************************)
EXTENDS Naturals, Sequences, Functions

CONSTANTS
    Addrs,          \* remote addresses
    Allowed,        \* those AllowedNetworks admits; Addrs when it is empty
    ConnLimit,      \* Limits.ConnectionsPerMinute; 0 for no limit
    Period,         \* the period of the window, a minute
    MaxFailures,    \* Limits.AuthFailuresBeforeBan; 0 to disable bans
    BanDuration,    \* the length of the first ban
    MaxBan,         \* maxBan
    FailureWindow,  \* failureWindow
    SweepEvery,     \* sweepEvery
    MaxPending,     \* bound on the connections of an address under way
    MaxTime         \* bound on the clock

ASSUME GuardAssumption ==
    /\ Allowed \subseteq Addrs
    /\ ConnLimit \in Nat /\ Period \in Nat \ {0} /\ MaxFailures \in Nat
    /\ BanDuration \in Nat \ {0} /\ MaxBan \in Nat \ {0} /\ FailureWindow \in Nat
    /\ SweepEvery \in Nat /\ MaxPending \in Nat /\ MaxTime \in Nat

VARIABLES
    now,        \* time.Now()
    conns,      \* Guard.conns: the times in the window of each known address
    failures,   \* Guard.failures
    bans,       \* Guard.bans: until when
    lastSweep,  \* Guard.lastSweep
    pending,    \* connections admitted whose credential is being looked at
    admitted,   \* history: the times of an address's admissions
    failed,     \* history: the times of an address's failures since it was
                \* last banned or cleared
    lastBan     \* history: the last ban of an address, unless cleared since

guardVars   == <<conns, failures, bans, lastSweep>>
historyVars == <<admitted, failed, lastBan>>
vars == <<now, conns, failures, bans, lastSweep, pending, admitted, failed, lastBan>>

Times     == 0 .. MaxTime
NeverBan  == [at |-> 0, length |-> 0]
Record    == [count : Nat, firstAt : Times, offences : Nat]

\* A Go map with one more entry, or one less.
Put(map, a, v) == [x \in DOMAIN map \cup {a} |-> IF x = a THEN v ELSE map[x]]
Delete(map, a) == Restrict(map, DOMAIN map \ {a})

-----------------------------------------------------------------------------
(* The window of connections, trimmed to the last period.                  *)

\* What is left of a list of times at an instant, when those that are span old
\* are dropped from its front.
Fresh(times, span, at) ==
    LET keep == CHOOSE k \in 0 .. Len(times) :
                    /\ \A i \in 1 .. k : times[i] + span <= at
                    /\ k < Len(times) => times[k + 1] + span > at
    IN  SubSeq(times, keep + 1, Len(times))

Trim(events) == Fresh(events, Period, now)

(* sweepLocked.                                                            *)
SweepDue == now - lastSweep >= SweepEvery

\* Mutant: a sweep forgets the windows of active addresses too.
ForgetAllConns ==
    IF SweepDue THEN Restrict(conns, {}) ELSE conns

SweptConns ==
    IF SweepDue
    THEN LET trimmed == [a \in DOMAIN conns |-> Trim(conns[a])]
         IN  Restrict(trimmed, {a \in DOMAIN conns : trimmed[a] # <<>>})
    ELSE conns

SweptFailures ==
    IF SweepDue
    THEN Restrict(failures, {a \in DOMAIN failures :
                                 now - failures[a].firstAt <= 2 * FailureWindow})
    ELSE failures

SweptBans ==
    IF SweepDue THEN Restrict(bans, {a \in DOMAIN bans : now <= bans[a]}) ELSE bans

Banned(a) == a \in DOMAIN SweptBans /\ now < SweptBans[a]

Window(a) == IF a \in DOMAIN SweptConns THEN Trim(SweptConns[a]) ELSE <<>>

\* AllowConnection: admitted, the address waits for its verdict.  full says
\* that the hub is at MaxAgents.
AllowConnection(a, full) ==
    /\ pending[a] < MaxPending
    /\ lastSweep' = IF SweepDue THEN now ELSE lastSweep
    /\ failures' = SweptFailures
    /\ bans' = SweptBans
    /\ LET refused == a \notin Allowed \/ Banned(a) \/ full
           limited == ConnLimit > 0 /\ Len(Window(a)) >= ConnLimit
       IN  /\ conns' = IF refused \/ ConnLimit = 0 THEN SweptConns
                       ELSE Put(SweptConns, a, IF limited THEN Window(a)
                                               ELSE Append(Window(a), now))
           /\ IF refused \/ limited
              THEN UNCHANGED <<pending, admitted>>
              ELSE /\ pending' = [pending EXCEPT ![a] = @ + 1]
                   /\ admitted' = [admitted EXCEPT ![a] = Append(@, now)]
    /\ UNCHANGED <<now, failed, lastBan>>

-----------------------------------------------------------------------------
(* RecordAuthFailure.                                                      *)

\* The loop that doubles the duration, before it is capped.
Doubled[n \in Nat] ==
    IF n <= 1 THEN BanDuration
    ELSE IF Doubled[n - 1] < MaxBan THEN 2 * Doubled[n - 1] ELSE Doubled[n - 1]

BanLength(offences) ==
    IF Doubled[offences] > MaxBan THEN MaxBan ELSE Doubled[offences]

\* Mutant: a new window starts with a clean slate.
ForgetOffences(a) ==
    IF a \in DOMAIN failures /\ now - failures[a].firstAt <= FailureWindow
    THEN [failures[a] EXCEPT !.count = @ + 1]
    ELSE [count |-> 1, firstAt |-> now, offences |-> 0]

\* Mutant: the count is never restarted.
CountForEver(a) ==
    IF a \in DOMAIN failures
    THEN [failures[a] EXCEPT !.count = @ + 1]
    ELSE [count |-> 1, firstAt |-> now, offences |-> 0]

\* Mutant: the failure that starts a window is not counted in it.
CountedFromZero(a) ==
    IF a \in DOMAIN failures /\ now - failures[a].firstAt <= FailureWindow
    THEN [failures[a] EXCEPT !.count = @ + 1]
    ELSE [count |-> 0, firstAt |-> now,
          offences |-> IF a \in DOMAIN failures THEN failures[a].offences ELSE 0]

\* The record of an address with one more failure in it: a failure outside the
\* window starts a new one, with the offences so far.
Counted(a) ==
    IF a \in DOMAIN failures /\ now - failures[a].firstAt <= FailureWindow
    THEN [failures[a] EXCEPT !.count = @ + 1]
    ELSE [count |-> 1, firstAt |-> now,
          offences |-> IF a \in DOMAIN failures THEN failures[a].offences ELSE 0]

TooMany(record) == record.count >= MaxFailures

\* Mutant: the count is left where it is when the address is banned.
OffenceKeepsCount(record) ==
    [count |-> record.count, firstAt |-> now, offences |-> record.offences + 1]

Offence(record) == [count |-> 0, firstAt |-> now, offences |-> record.offences + 1]

RecordAuthFailure(a) ==
    /\ pending[a] > 0
    /\ pending' = [pending EXCEPT ![a] = @ - 1]
    /\ IF MaxFailures = 0
       THEN UNCHANGED <<failures, bans, failed, lastBan>>
       ELSE LET record == Counted(a)
                length == BanLength(record.offences + 1)
            IN  IF TooMany(record)
                THEN /\ failures' = Put(failures, a, Offence(record))
                     /\ bans' = Put(bans, a, now + length)
                     /\ lastBan' = [lastBan EXCEPT ![a] = [at |-> now, length |-> length]]
                     /\ failed' = [failed EXCEPT ![a] = <<>>]
                ELSE /\ failures' = Put(failures, a, record)
                     /\ failed' = [failed EXCEPT ![a] = Append(@, now)]
                     /\ UNCHANGED <<bans, lastBan>>
    /\ UNCHANGED <<now, conns, lastSweep, admitted>>

\* The histories of an address whose failures were forgotten on purpose.
Clear(a) ==
    /\ failed' = [failed EXCEPT ![a] = <<>>]
    /\ lastBan' = [lastBan EXCEPT ![a] = NeverBan]

RecordAuthSuccess(a) ==
    /\ pending[a] > 0
    /\ pending' = [pending EXCEPT ![a] = @ - 1]
    /\ failures' = Delete(failures, a)
    /\ Clear(a)
    /\ UNCHANGED <<now, conns, bans, lastSweep, admitted>>

\* A connection that ends before it presented a credential.
GivesUp(a) ==
    /\ pending[a] > 0
    /\ pending' = [pending EXCEPT ![a] = @ - 1]
    /\ UNCHANGED <<now, guardVars, historyVars>>

Unban(a) ==
    /\ a \in DOMAIN bans
    /\ bans' = Delete(bans, a)
    /\ failures' = Delete(failures, a)
    /\ Clear(a)
    /\ UNCHANGED <<now, conns, lastSweep, pending, admitted>>

\* The histories keep what the properties look back at.
Tick ==
    /\ now < MaxTime
    /\ now' = now + 1
    /\ admitted' = [a \in Addrs |-> Fresh(admitted[a], Period, now + 1)]
    /\ failed' = [a \in Addrs |-> Fresh(failed[a], FailureWindow + 1, now + 1)]
    /\ UNCHANGED <<guardVars, pending, lastBan>>

-----------------------------------------------------------------------------
NoMap == [a \in {} |-> 0]

Init ==
    /\ now = 0
    /\ conns = NoMap /\ failures = NoMap /\ bans = NoMap
    /\ lastSweep = 0
    /\ pending = [a \in Addrs |-> 0]
    /\ admitted = [a \in Addrs |-> <<>>]
    /\ failed = [a \in Addrs |-> <<>>]
    /\ lastBan = [a \in Addrs |-> NeverBan]

Next ==
    \/ \E a \in Addrs, full \in BOOLEAN : AllowConnection(a, full)
    \/ \E a \in Addrs : RecordAuthFailure(a)
    \/ \E a \in Addrs : RecordAuthSuccess(a)
    \/ \E a \in Addrs : GivesUp(a)
    \/ \E a \in Addrs : Unban(a)
    \/ Tick

Spec == Init /\ [][Next]_vars

-----------------------------------------------------------------------------
TypeOK ==
    /\ now \in Times /\ lastSweep \in Times
    /\ DOMAIN conns \subseteq Addrs /\ DOMAIN failures \subseteq Addrs
    /\ DOMAIN bans \subseteq Addrs
    /\ \A a \in DOMAIN conns : conns[a] \in Seq(Times)
    /\ \A a \in DOMAIN failures : failures[a] \in Record /\ failures[a].count < MaxFailures
    /\ \A a \in DOMAIN bans : bans[a] \in Nat
    /\ pending \in [Addrs -> 0 .. MaxPending]
    /\ admitted \in [Addrs -> Seq(Times)]
    /\ failed \in [Addrs -> Seq(Times)]
    /\ lastBan \in [Addrs -> [at : Times, length : Nat]]

\* RecordAuthFailure: an address that fails slowly is never banned; a ban needs
\* MaxFailures failures within one FailureWindow.
BanNeedsBurst ==
    [][\A a \in Addrs : lastBan'[a] # lastBan[a] /\ lastBan'[a] # NeverBan
                           => Len(failed[a]) + 1 >= MaxFailures]_vars

\* window.allow: no period, wherever it starts, sees more than ConnLimit
\* connections of an address, although sweeps drop windows in between.
ConnectionsLimited ==
    \A a \in Addrs : ConnLimit > 0 => Len(admitted[a]) <= ConnLimit

\* RecordAuthFailure's comment, "Failures are counted in a rolling window": an
\* address is banned with the failure that makes MaxFailures in a FailureWindow,
\* wherever that starts.
BurstIsBanned ==
    \A a \in Addrs : MaxFailures > 0 => Len(failed[a]) < MaxFailures

\* What RecordAuthFailure does instead.  Its windows start with a failure and the
\* next one forgets the last, so that a burst across their border goes on; but it
\* stops before it is two full windows, whichever connections still under way,
\* sweeps and expiries it meets.
FailuresBounded ==
    \A a \in Addrs : MaxFailures > 0 => Len(failed[a]) <= 2 * (MaxFailures - 1)

\* The ban of an address that was banned before, without a success since.
NextLength(length) == IF 2 * length > MaxBan THEN MaxBan ELSE 2 * length

\* RecordAuthFailure: the ban doubles for an address that offends again within
\* the two FailureWindows its record is kept for, whichever sweeps, expired
\* windows and connections still under way lie between.
EscalatesWithinMemory ==
    [][\A a \in Addrs :
         /\ lastBan'[a] # lastBan[a] /\ lastBan'[a] # NeverBan /\ lastBan[a] # NeverBan
         /\ now - lastBan[a].at <= 2 * FailureWindow
         => lastBan'[a].length = NextLength(lastBan[a].length)]_vars

=============================================================================
