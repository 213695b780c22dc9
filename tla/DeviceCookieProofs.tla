------------------------- MODULE DeviceCookieProofs -------------------------
(***************************************************************************)
(* Proofs about DeviceCookie, for any lifetime of cookie and session and   *)
(* any number of requests.                                                 *)
(***************************************************************************)
EXTENDS DeviceCookie, FiniteSetTheorems, TLAPS

\* A request is in progress or a session, but not both, nor twice either; the
\* browser waits for its last request only; and a device is no younger than the
\* requests made with it.
NamesInv ==
    /\ \A q, p \in inflight : q.req = p.req => q = p
    /\ \A s, t \in sessions : s.req = t.req => s = t
    /\ \A q \in inflight, s \in sessions : q.req # s.req
    /\ awaited # 0 => awaited = sent /\ \E q \in inflight : q.req = awaited
    /\ \A q \in inflight : q.cookie.id <= q.req
    /\ \A s \in sessions : s.dev <= s.req
    /\ cookie # NoCookie => cookie.id <= sent /\ (awaited # 0 => cookie.id < awaited)

\* The cookie the browser waits for is the one it has, or a new one, stamped a
\* whole lifetime after the one it has.
Fresh(q) == q.cookie.id = q.req

AwaitedInv ==
    \A q \in inflight : q.req = awaited =>
        \/ cookie # NoCookie /\ q.cookie = cookie
        \/ Fresh(q) /\ (cookie # NoCookie => cookie.ts + MaxAge <= q.cookie.ts)

\* Each request is given up once.
CountInv == abandoned + (IF awaited = 0 THEN 0 ELSE 1) <= sent

\* E is a set of requests, one at most for each that the browser gave up on, and
\* holds all that are in progress behind the browser's back.
Few(E) == IsFiniteSet(E) /\ Cardinality(E) <= abandoned
Behind(E) ==
    /\ awaited \notin E
    /\ \A q \in inflight : q.req # awaited => q.req \in E

Others(E) == {s \in sessions : s.req \notin E}

\* For the sessions S outside E: one at most for each device, which is bound,
\* so that the request the browser waits for has another device.
Single(S) ==
    /\ \A s, t \in S : s.dev = t.dev => s = t
    /\ \A s \in S : s.dev \in bound
    /\ \A s \in S, q \in inflight : q.req = awaited => s.dev # q.cookie.id

\* A session of a device the browser no longer is was created before the cookie
\* that took the device's place, which was stamped at g[d].
Replaced(S, g) ==
    /\ \A s \in S :
           /\ cookie # NoCookie
           /\ s.dev # cookie.id => /\ s.until < g[s.dev] + Second + TTL
                                   /\ g[s.dev] <= cookie.ts
    /\ \A s \in S, q \in inflight :
           q.req = awaited /\ Fresh(q) => s.until < q.cookie.ts + Second + TTL

\* Cookies that take one another's place are a lifetime apart.
Apart(S, g) ==
    \A s, t \in S : s.dev # cookie.id /\ t.dev # cookie.id /\ s.dev # t.dev =>
        g[s.dev] + MaxAge <= g[t.dev] \/ g[t.dev] + MaxAge <= g[s.dev]

Excused(E, g) ==
    /\ Few(E) /\ Behind(E)
    /\ Single(Others(E)) /\ Replaced(Others(E), g) /\ Apart(Others(E), g)

ExcessInv == \E E \in SUBSET (1 .. sent), g \in [Ids -> Nat] : Excused(E, g)

Inv == TypeOK /\ NamesInv /\ AwaitedInv /\ CountInv /\ ExcessInv

-----------------------------------------------------------------------------
(* Lemmas *)

\* The constants are natural numbers.
LEMMA Constants ==
    /\ MaxSkew \in Nat /\ MaxRequests \in Nat /\ MaxTime \in Nat
    /\ MaxAge \in Nat \ {0} /\ TTL \in Nat \ {0} /\ Second \in Nat \ {0}
    /\ MaxAge % Second = 0
BY CookieAssumption

\* What division leaves is less than the divisor.
LEMMA DivFacts ==
    ASSUME NEW n \in Nat, NEW s \in Nat \ {0}
    PROVE  /\ n \div s \in Nat
           /\ (n \div s) * s \in 0 .. n
           /\ n < (n \div s) * s + s
           /\ ((n \div s) * s) % s = 0
<1> DEFINE k == n \div s
           m == k * s
           j == m \div s
<1>1. k \in Int /\ n = s * k + (n % s) /\ n % s \in 0 .. (s - 1)
  OBVIOUS
<1>2. k >= 0
  BY <1>1
<1>3. m \in 0 .. n /\ n < m + s
  BY <1>1, <1>2
<1>4. m % s = 0
  <2>1. k \in Nat /\ m \in Nat
    BY <1>1, <1>2, <1>3
  <2> HIDE DEF k, m
  <2>2. m = s * j + (m % s) /\ m % s \in 0 .. (s - 1) /\ j \in Int
    BY <2>1
  <2> HIDE DEF j
  <2>3. m % s = s * (k - j)
    BY <2>1, <2>2 DEF m
  <2>4. k - j <= 0 /\ k - j >= 0
    BY <2>1, <2>2, <2>3
  <2> QED BY <2>1, <2>2, <2>3, <2>4
<1> QED BY <1>1, <1>2, <1>3, <1>4

\* Two multiples of s less than s apart are in order.
LEMMA Multiples ==
    ASSUME NEW s \in Nat \ {0}, NEW a \in Nat, NEW b \in Nat, NEW c \in Nat,
           a % s = 0, b % s = 0, c % s = 0, a + b < c + s
    PROVE  a + b <= c
<1> DEFINE i == a \div s
           j == b \div s
           k == c \div s
<1>1. i \in Int /\ j \in Int /\ k \in Int /\ a = s * i /\ b = s * j /\ c = s * k
  OBVIOUS
<1> HIDE DEF i, j, k
<1>2. s * (i + j) < s * (k + 1)
  BY <1>1
<1>3. i + j < k + 1
  BY <1>1, <1>2
<1>4. i + j <= k
  BY <1>1, <1>3
<1>5. s * (i + j) <= s * k
  BY <1>1, <1>4
<1> QED BY <1>1, <1>5

\* Of two numbers at least m apart, the quotients by m differ.
LEMMA Quotients ==
    ASSUME NEW m \in Nat \ {0}, NEW a \in Nat, NEW b \in Nat, a + m <= b
    PROVE  a \div m # b \div m
<1> DEFINE i == a \div m
           j == b \div m
<1>1. /\ i \in Int /\ a = m * i + (a % m) /\ a % m \in 0 .. (m - 1)
      /\ j \in Int /\ b = m * j + (b % m) /\ b % m \in 0 .. (m - 1)
  OBVIOUS
<1> QED BY <1>1

\* Division keeps the order.
LEMMA DivMonotone ==
    ASSUME NEW m \in Nat \ {0}, NEW a \in Nat, NEW b \in Nat, a <= b
    PROVE  a \div m \in 0 .. b \div m
<1> DEFINE i == a \div m
           j == b \div m
<1>1. /\ i \in Int /\ a = m * i + (a % m) /\ a % m \in 0 .. (m - 1)
      /\ j \in Int /\ b = m * j + (b % m) /\ b % m \in 0 .. (m - 1)
  OBVIOUS
<1>2. i \in Nat
  BY DivFacts
<1> HIDE DEF i, j
<1>3. m * i < m * (j + 1)
  BY <1>1
<1>4. i < j + 1
  BY <1>1, <1>3
<1> QED BY <1>1, <1>2, <1>4 DEF i, j

\* A stamp is a cookie's, and less than a second old.
LEMMA Stamp ==
    ASSUME TypeOK
    PROVE  Unix \in {t \in 0 .. now : t % Second = 0} /\ now < Unix + Second
<1>1. now \in Nat /\ Second \in Nat \ {0}
  BY Constants DEF TypeOK
<1>2. /\ (now \div Second) * Second \in 0 .. now
      /\ now < (now \div Second) * Second + Second
      /\ ((now \div Second) * Second) % Second = 0
  BY <1>1, DivFacts
<1> QED BY <1>2 DEF Unix

\* The cookie a request is given is the browser's, or a new one stamped now and a
\* whole lifetime after the browser's.
LEMMA Given ==
    ASSUME TypeOK, sent < MaxRequests
    PROVE  LET c == GetOrSet(sent + 1)
           IN  /\ c \in Cookies
               /\ \/ cookie # NoCookie /\ c = cookie
                  \/ /\ c.id = sent + 1
                     /\ now < c.ts + Second
                     /\ cookie # NoCookie => cookie.ts + MaxAge <= c.ts
<1> USE Constants DEF TypeOK
<1>1. CASE Verify
  BY <1>1 DEF Verify, GetOrSet, Cookies
<1>2. CASE ~Verify
  <2>1. GetOrSet(sent + 1) = [id |-> sent + 1, ts |-> Unix]
    BY <1>2 DEF GetOrSet
  <2>2. sent + 1 \in Ids
    BY DEF Ids
  <2>3. cookie # NoCookie => cookie.ts \in 0 .. now /\ cookie.ts % Second = 0
    BY DEF Cookies
  <2>4. Unix \in 0 .. now /\ Unix % Second = 0 /\ now < Unix + Second
    BY Stamp
  <2>5. cookie # NoCookie => cookie.ts + MaxAge < now
    BY <1>2, <2>3 DEF Verify
  <2>6. cookie # NoCookie => cookie.ts + MaxAge < Unix + Second
    BY <2>3, <2>4, <2>5
  <2>7. cookie # NoCookie => cookie.ts + MaxAge <= Unix
    BY <2>3, <2>4, <2>6, Multiples
  <2> QED BY <2>1, <2>2, <2>4, <2>7 DEF Cookies
<1> QED BY <1>1, <1>2

-----------------------------------------------------------------------------
(* Types *)

\* Every step keeps the types.
LEMMA TypeStep ==
    ASSUME TypeOK, NamesInv, CountInv, [Next]_vars
    PROVE  TypeOK'
<1> USE Constants DEF TypeOK, CountInv, vars
<1>c. Ids' = Ids
  BY DEF Ids
<1>1. CASE Check
  <2>1. Cookies' = Cookies
    BY <1>1, <1>c DEF Check, Cookies
  <2>2. GetOrSet(sent + 1) \in Cookies
    BY <1>1, Given DEF Check
  <2> QED BY <1>1, <2>1, <2>2, <1>c DEF Check
<1>2. ASSUME NEW q \in inflight, Reject(q) PROVE TypeOK'
  BY <1>2, <1>c DEF Reject, Answer, Cookies
<1>3. ASSUME NEW q \in inflight, Create(q) PROVE TypeOK'
  <2> DEFINE new == [req |-> q.req, dev |-> q.cookie.id, until |-> now + TTL]
  <2>1. new \in [req : 1 .. sent, dev : Ids, until : 0 .. now + TTL]
    BY DEF Cookies
  <2>2. sessions' = sessions \cup {new} /\ bound' = bound \cup {new.dev}
    BY <1>3 DEF Create
  <2>3. bound' \subseteq {s.dev : s \in sessions'}
    BY <2>2
  <2>4. UNCHANGED <<now, sent, abandoned>>
    BY <1>3 DEF Create
  <2>5. Cookies' = Cookies
    BY <2>4, <1>c DEF Cookies
  <2>6. inflight' \subseteq inflight /\ awaited' \in {awaited, 0} /\ cookie' \in {cookie, q.cookie}
    BY <1>3 DEF Create, Answer
  <2>7. sessions' \subseteq [req : 1 .. sent, dev : Ids, until : 0 .. now + TTL]
    BY <2>1, <2>2
  <2> QED BY <2>3, <2>4, <2>5, <2>6, <2>7, <1>c
<1>4. CASE GiveUp
  BY <1>4, <1>c DEF GiveUp, Cookies
<1>5. ASSUME NEW s \in sessions, Release(s) PROVE TypeOK'
  BY <1>5, <1>c DEF Release, Cookies
<1>6. CASE Tick
  BY <1>6, <1>c DEF Tick, Cookies
<1>7. CASE UNCHANGED vars
  BY <1>7, <1>c DEF Cookies
<1> QED BY <1>1, <1>2, <1>3, <1>4, <1>5, <1>6, <1>7 DEF Next

\* The fields of requests, sessions and the cookie.
LEMMA Fields ==
    ASSUME TypeOK
    PROVE  /\ \A q \in inflight :
                  /\ q.req \in 1 .. sent /\ q.cookie \in Cookies
                  /\ q.cookie.id \in Ids /\ q.cookie.ts \in 0 .. now
           /\ \A s \in sessions :
                  s.req \in 1 .. sent /\ s.dev \in Ids /\ s.until \in 0 .. now + TTL
           /\ cookie # NoCookie => cookie.id \in Ids /\ cookie.ts \in 0 .. now
           /\ now \in Nat /\ sent \in Nat /\ awaited \in 0 .. sent /\ abandoned \in Nat
           /\ Ids \subseteq Nat
<1> USE Constants DEF TypeOK
<1>1. \A q \in inflight :
          /\ q.req \in 1 .. sent /\ q.cookie \in Cookies
          /\ q.cookie.id \in Ids /\ q.cookie.ts \in 0 .. now
  BY DEF Cookies
<1>2. \A s \in sessions :
          s.req \in 1 .. sent /\ s.dev \in Ids /\ s.until \in 0 .. now + TTL
  OBVIOUS
<1>3. cookie # NoCookie => cookie.id \in Ids /\ cookie.ts \in 0 .. now
  BY DEF Cookies
<1>4. now \in Nat /\ sent \in Nat /\ awaited \in 0 .. sent /\ abandoned \in Nat /\ Ids \subseteq Nat
  BY DEF Ids
<1> QED BY <1>1, <1>2, <1>3, <1>4

-----------------------------------------------------------------------------
(* Steps *)

\* Every step keeps the count of the requests given up.
LEMMA CountStep ==
    ASSUME TypeOK, NamesInv, CountInv, [Next]_vars
    PROVE  CountInv'
BY Fields DEF TypeOK, NamesInv, CountInv, Next, Check, Reject, Create, Answer, GiveUp,
   Release, Tick, vars

\* Every step keeps requests, sessions and devices apart.
LEMMA NamesStep ==
    ASSUME TypeOK, NamesInv, [Next]_vars
    PROVE  NamesInv'
<1>f. /\ \A q \in inflight : q.req \in 1 .. sent /\ q.cookie.id \in Ids
      /\ \A s \in sessions : s.req \in 1 .. sent
      /\ cookie # NoCookie => cookie.id \in Ids
      /\ sent \in Nat /\ awaited \in 0 .. sent /\ Ids \subseteq Nat
  BY Fields
<1> USE DEF NamesInv
<1>1. CASE Check
  <2> DEFINE c == GetOrSet(sent + 1)
             new == [req |-> sent + 1, cookie |-> c]
  <2>1. (cookie # NoCookie /\ c = cookie) \/ c.id = sent + 1
    BY <1>1, Given DEF Check
  <2> HIDE DEF c
  <2>0. cookie # NoCookie => cookie.id \in Nat /\ cookie.id <= sent
    BY <1>f
  <2>2. c.id <= sent + 1
    BY <1>f, <2>0, <2>1
  <2>3. /\ inflight' = inflight \cup {new} /\ awaited' = sent + 1 /\ sent' = sent + 1
        /\ UNCHANGED <<cookie, sessions>>
    BY <1>1 DEF Check, c
  <2>4. new.req = sent + 1 /\ new.cookie = c /\ new \in inflight'
    BY <2>3
  <2> HIDE DEF new
  <2>5. \A q \in inflight : q.req # new.req
    BY <1>f, <2>4
  <2>6. \A s \in sessions : s.req # new.req
    BY <1>f, <2>4
  <2>7. /\ \A q, p \in inflight' : q.req = p.req => q = p
        /\ \A q \in inflight', s \in sessions' : q.req # s.req
    BY <2>3, <2>5, <2>6
  <2>8. cookie' # NoCookie => cookie'.id <= sent' /\ cookie'.id < awaited'
    BY <1>f, <2>0, <2>3
  <2> QED BY <2>2, <2>3, <2>4, <2>7, <2>8
<1>2. ASSUME NEW q \in inflight, Reject(q) PROVE NamesInv'
  BY <1>2, <1>f DEF Reject, Answer
<1>3. ASSUME NEW q \in inflight, Create(q) PROVE NamesInv'
  BY <1>3, <1>f DEF Create, Answer
<1>4. CASE GiveUp
  BY <1>4 DEF GiveUp
<1>5. ASSUME NEW s \in sessions, Release(s) PROVE NamesInv'
  BY <1>5 DEF Release
<1>6. CASE Tick \/ UNCHANGED vars
  BY <1>6 DEF Tick, vars
<1> QED BY <1>1, <1>2, <1>3, <1>4, <1>5, <1>6 DEF Next

\* Every step keeps what is known of the cookie the browser waits for.
LEMMA AwaitedStep ==
    ASSUME TypeOK, NamesInv, AwaitedInv, [Next]_vars
    PROVE  AwaitedInv'
<1>f. /\ \A q \in inflight : q.req \in 1 .. sent
      /\ sent \in Nat /\ awaited \in 0 .. sent
  BY Fields
<1> USE DEF NamesInv, AwaitedInv, Fresh
<1>1. CASE Check
  <2> DEFINE c == GetOrSet(sent + 1)
             new == [req |-> sent + 1, cookie |-> c]
  <2>1. \/ cookie # NoCookie /\ c = cookie
        \/ c.id = sent + 1 /\ (cookie # NoCookie => cookie.ts + MaxAge <= c.ts)
    BY <1>1, Given DEF Check
  <2>2. inflight' = inflight \cup {new} /\ awaited' = sent + 1 /\ cookie' = cookie
    BY <1>1 DEF Check
  <2> HIDE DEF c
  <2>3. \A q \in inflight' : q.req = awaited' => q = new
    BY <1>f, <2>2
  <2> QED BY <2>1, <2>2, <2>3
<1>2. ASSUME NEW q \in inflight, Answer(q) PROVE AwaitedInv'
  BY <1>2, <1>f DEF Answer
<1>3. CASE GiveUp
  BY <1>3, <1>f DEF GiveUp
<1>4. ASSUME NEW s \in sessions, Release(s) PROVE AwaitedInv'
  BY <1>4 DEF Release
<1>5. CASE Tick \/ UNCHANGED vars
  BY <1>5 DEF Tick, vars
<1> QED BY <1>1, <1>2, <1>3, <1>4, <1>5 DEF Next, Reject, Create

-----------------------------------------------------------------------------
(* The sessions in excess *)

\* What Excused is in the next state, for a set T of sessions.
LEMMA ExcusedNext ==
    ASSUME NEW F \in SUBSET (1 .. sent'), NEW g \in [Ids -> Nat], NEW T, T = Others(F)',
           Few(F)', Behind(F)', Single(T)', Replaced(T, g)', Apart(T, g)'
    PROVE  ExcessInv'
<1>1. Ids' = Ids
  BY DEF Ids
<1>2. Excused(F, g)'
  BY DEF Excused, Single, Replaced, Apart
<1> QED BY <1>1, <1>2 DEF ExcessInv

\* One element of a small set in place of another.
LEMMA SwapFew ==
    ASSUME TypeOK, NEW E, Few(E), NEW a \in E, NEW b
    PROVE  Few((E \ {a}) \cup {b})
<1> DEFINE D == E \ {a}
           F == D \cup {b}
<1>1. IsFiniteSet(E) /\ Cardinality(E) \in Nat /\ Cardinality(E) <= abandoned /\ abandoned \in Nat
  BY FS_CardinalityType DEF Few, TypeOK
<1>2. IsFiniteSet(D) /\ Cardinality(D) = Cardinality(E) - 1
  BY <1>1, FS_RemoveElement
<1>3. IsFiniteSet(F) /\ (Cardinality(F) = Cardinality(D) \/ Cardinality(F) = Cardinality(D) + 1)
  BY <1>2, FS_AddElement
<1>4. Cardinality(F) <= abandoned
  BY <1>1, <1>2, <1>3
<1> QED BY <1>3, <1>4 DEF Few

\* The device check lets through a device that is not bound, so none of a session
\* outside E, and a new cookie is stamped after all the sessions were created.
LEMMA ExcessCheck ==
    ASSUME TypeOK, NamesInv, Check,
           NEW E \in SUBSET (1 .. sent), NEW g \in [Ids -> Nat], Excused(E, g)
    PROVE  ExcessInv'
<1> DEFINE c == GetOrSet(sent + 1)
           new == [req |-> sent + 1, cookie |-> c]
<1>f. /\ \A q \in inflight : q.req \in 1 .. sent
      /\ \A s \in sessions : s.until \in 0 .. now + TTL
      /\ cookie # NoCookie => cookie.id \in Nat
      /\ now \in Nat /\ sent \in Nat /\ awaited \in 0 .. sent
  BY Fields
<1>1. /\ inflight' = inflight \cup {new} /\ awaited' = sent + 1 /\ sent' = sent + 1
      /\ awaited = 0 /\ c.id \notin bound
      /\ UNCHANGED <<now, cookie, sessions, bound, abandoned>>
  BY DEF Check
<1>2. /\ c \in Cookies
      /\ \/ cookie # NoCookie /\ c = cookie
         \/ c.id = sent + 1 /\ now < c.ts + Second
  BY Given DEF Check
<1>3. c.ts \in Nat
  BY <1>2 DEF Cookies
<1>4. new.req = sent + 1 /\ new.cookie = c
  OBVIOUS
<1> HIDE DEF c, new
<1>5. \A q \in inflight' : q.req = awaited' => q = new
  BY <1>f, <1>1
<1>6. PICK S : S = Others(E)
  OBVIOUS
<1>7. S \subseteq sessions /\ Single(S) /\ Replaced(S, g) /\ Apart(S, g)
  BY <1>6 DEF Excused, Others
<1>8. Few(E)' /\ E \in SUBSET (1 .. sent')
  BY <1>f, <1>1 DEF Excused, Few
<1>9. Behind(E)'
  BY <1>f, <1>1, <1>4 DEF Excused, Behind
<1>10. Single(S)'
  BY <1>1, <1>4, <1>5, <1>7 DEF Single
<1>11. Replaced(S, g)'
  <2>1. ASSUME NEW s \in S, NEW q \in inflight', q.req = awaited', Fresh(q)
        PROVE  s.until < q.cookie.ts + Second + TTL
    <3>1. q.cookie = c /\ c.id = sent + 1
      BY <1>1, <1>4, <1>5, <2>1 DEF Fresh
    <3>2. now < c.ts + Second
      BY <1>f, <1>2, <3>1 DEF NamesInv
    <3> QED BY <1>f, <1>3, <1>7, <3>1, <3>2, Constants
  <2> QED BY <1>1, <1>7, <2>1 DEF Replaced
<1>12. Apart(S, g)' /\ S = Others(E)'
  BY <1>1, <1>6, <1>7 DEF Apart, Others
<1> QED BY <1>8, <1>9, <1>10, <1>11, <1>12, ExcusedNext

\* An answer with a new cookie: it takes the place of the one the browser had.
LEMMA AnswerReplaces ==
    ASSUME TypeOK, NamesInv, AwaitedInv, NEW q \in inflight, Answer(q),
           NEW S \in SUBSET sessions, NEW g \in [Ids -> Nat],
           Single(S), Replaced(S, g), Apart(S, g)
    PROVE  \E h \in [Ids -> Nat] : Replaced(S, h)' /\ Apart(S, h)'
<1>f. /\ q.cookie \in Cookies /\ q.cookie.ts \in Nat /\ q.cookie.id \in Nat
      /\ \A p \in inflight : p.req # 0
      /\ \A s \in sessions : s.dev \in Ids /\ s.until \in Nat
      /\ cookie # NoCookie => cookie.id \in Ids /\ cookie.id \in Nat /\ cookie.ts \in Nat
      /\ \A d \in Ids : g[d] \in Nat
      /\ awaited \in Nat
  BY Fields, Constants
<1>1. CASE cookie' = cookie
  <2>1. Replaced(S, g)'
    BY <1>f, <1>1 DEF Replaced, Answer, Fresh
  <2>2. Apart(S, g)'
    BY <1>1 DEF Apart
  <2> QED BY <2>1, <2>2
<1>2. CASE cookie' # cookie
  <2>1. awaited = q.req /\ awaited' = 0 /\ cookie' = q.cookie /\ inflight' = inflight \ {q}
    BY <1>2 DEF Answer
  <2>2. Fresh(q) /\ (cookie # NoCookie => cookie.ts + MaxAge <= q.cookie.ts)
    BY <1>2, <2>1 DEF AwaitedInv
  <2>3. CASE S = {}
    BY <2>3 DEF Replaced, Apart
  <2>4. CASE S # {}
    <3>1. cookie # NoCookie
      BY <2>4 DEF Replaced
    <3>2. PICK h \in [Ids -> Nat] :
              \A d \in Ids : h[d] = IF d = cookie.id THEN q.cookie.ts ELSE g[d]
      <4>1. [g EXCEPT ![cookie.id] = q.cookie.ts] \in [Ids -> Nat]
        BY <1>f
      <4> QED BY <4>1
    <3>3. cookie' # NoCookie
      BY <1>f, <2>1, CookieAssumption DEF Cookies, Ids, TypeOK
    <3>4. ASSUME NEW s \in S
          PROVE  s.until < h[s.dev] + Second + TTL /\ h[s.dev] <= q.cookie.ts
      <4>1. CASE s.dev = cookie.id
        BY <1>f, <2>1, <2>2, <3>2, <4>1 DEF Replaced
      <4>2. CASE s.dev # cookie.id
        <5>1. s.until < g[s.dev] + Second + TTL /\ g[s.dev] <= cookie.ts
          BY <4>2 DEF Replaced
        <5>2. h[s.dev] = g[s.dev] /\ g[s.dev] \in Nat
          BY <1>f, <3>2, <4>2
        <5> QED BY <1>f, <2>2, <3>1, <5>1, <5>2, Constants
      <4> QED BY <4>1, <4>2
    <3>5. Replaced(S, h)'
      BY <1>f, <2>1, <3>3, <3>4 DEF Replaced
    <3>6. ASSUME NEW s \in S, NEW t \in S, s.dev # t.dev
          PROVE  h[s.dev] + MaxAge <= h[t.dev] \/ h[t.dev] + MaxAge <= h[s.dev]
      <4>1. ASSUME NEW x \in S, x.dev # cookie.id PROVE g[x.dev] + MaxAge <= q.cookie.ts
        <5>1. g[x.dev] <= cookie.ts
          BY <4>1 DEF Replaced
        <5> QED BY <1>f, <2>2, <3>1, <5>1, Constants
      <4>2. CASE s.dev = cookie.id
        BY <1>f, <3>2, <3>6, <4>1, <4>2
      <4>3. CASE t.dev = cookie.id
        BY <1>f, <3>2, <3>6, <4>1, <4>3
      <4>4. CASE s.dev # cookie.id /\ t.dev # cookie.id
        BY <1>f, <3>2, <3>6, <4>4 DEF Apart
      <4> QED BY <4>2, <4>3, <4>4
    <3>7. Apart(S, h)'
      BY <3>6 DEF Apart
    <3> QED BY <3>5, <3>7
  <2> QED BY <2>3, <2>4
<1> QED BY <1>1, <1>2

\* A request that fails.
LEMMA ExcessReject ==
    ASSUME TypeOK, NamesInv, AwaitedInv, NEW q \in inflight, Reject(q),
           NEW E \in SUBSET (1 .. sent), NEW g \in [Ids -> Nat], Excused(E, g)
    PROVE  ExcessInv'
<1>1. Answer(q) /\ UNCHANGED <<sent, sessions, bound, abandoned>>
  BY DEF Reject
<1>2. PICK S : S = Others(E)
  OBVIOUS
<1>3. S \subseteq sessions /\ S = Others(E)' /\ Single(S) /\ Replaced(S, g) /\ Apart(S, g)
  BY <1>1, <1>2 DEF Excused, Others
<1>4. PICK h \in [Ids -> Nat] : Replaced(S, h)' /\ Apart(S, h)'
  BY <1>1, <1>3, AnswerReplaces
<1>5. Few(E)' /\ E \in SUBSET (1 .. sent')
  BY <1>1 DEF Excused, Few
<1>6. Behind(E)'
  BY <1>1, Fields DEF Excused, Behind, Answer, NamesInv
<1>7. Single(S)'
  BY <1>1, <1>3, Fields DEF Single, Answer
<1> QED BY <1>3, <1>4, <1>5, <1>6, <1>7, ExcusedNext

\* A request that succeeds: it is in E if it is behind the browser's back,
\* otherwise its device becomes the browser's.
LEMMA ExcessCreate ==
    ASSUME TypeOK, NamesInv, AwaitedInv, NEW q \in inflight, Create(q),
           NEW E \in SUBSET (1 .. sent), NEW g \in [Ids -> Nat], Excused(E, g)
    PROVE  ExcessInv'
<1> DEFINE new == [req |-> q.req, dev |-> q.cookie.id, until |-> now + TTL]
<1>1. /\ Answer(q) /\ sessions' = sessions \cup {new} /\ bound' = bound \cup {q.cookie.id}
      /\ UNCHANGED <<sent, abandoned>>
  BY DEF Create
<1>2. new.req = q.req /\ new.dev = q.cookie.id
  OBVIOUS
<1> HIDE DEF new
<1>3. PICK S : S = Others(E)
  OBVIOUS
<1>4. S \subseteq sessions /\ Single(S) /\ Replaced(S, g) /\ Apart(S, g)
  BY <1>3 DEF Excused, Others
<1>5. PICK h \in [Ids -> Nat] : Replaced(S, h)' /\ Apart(S, h)'
  BY <1>1, <1>4, AnswerReplaces
<1>6. Few(E)' /\ E \in SUBSET (1 .. sent')
  BY <1>1 DEF Excused, Few
<1>7. Behind(E)'
  BY <1>1, Fields DEF Excused, Behind, Answer, NamesInv
<1>8. Single(S)'
  BY <1>1, <1>4, Fields DEF Single, Answer
<1>9. CASE q.req = awaited
  <2>1. PICK T : T = S \cup {new}
    OBVIOUS
  <2>2. T = Others(E)'
    BY <1>1, <1>2, <1>3, <1>9, <2>1 DEF Others, Excused, Behind
  <2>3. awaited' = 0 /\ cookie' = q.cookie /\ \A p \in inflight' : p.req # awaited'
    BY <1>1, <1>9, Fields DEF Answer
  <2>4. cookie' # NoCookie
    BY <2>3, Fields, CookieAssumption DEF Cookies, Ids, TypeOK
  <2>5. \A s \in S : s.dev # new.dev
    BY <1>2, <1>4, <1>9 DEF Single
  <2>6. Single(T)'
    BY <1>1, <1>2, <1>8, <2>1, <2>3, <2>5 DEF Single
  <2>7. Replaced(T, h)'
    BY <1>2, <1>5, <2>1, <2>3, <2>4 DEF Replaced
  <2>8. Apart(T, h)'
    BY <1>2, <1>5, <2>1, <2>3 DEF Apart
  <2> QED BY <1>6, <1>7, <2>2, <2>6, <2>7, <2>8, ExcusedNext
<1>10. CASE q.req # awaited
  <2>1. S = Others(E)'
    BY <1>1, <1>2, <1>3, <1>10 DEF Others, Excused, Behind
  <2> QED BY <1>5, <1>6, <1>7, <1>8, <2>1, ExcusedNext
<1> QED BY <1>9, <1>10

\* The end of a session unbinds its device.  If another session of it is outside
\* E, that one takes the place of this one in E.
LEMMA ExcessRelease ==
    ASSUME TypeOK, NamesInv, NEW s \in sessions, Release(s),
           NEW E \in SUBSET (1 .. sent), NEW g \in [Ids -> Nat], Excused(E, g)
    PROVE  ExcessInv'
<1>1. /\ sessions' = sessions \ {s} /\ bound' = bound \ {s.dev}
      /\ UNCHANGED <<now, cookie, sent, awaited, inflight, abandoned>>
  BY DEF Release
<1>2. PICK S : S = Others(E)
  OBVIOUS
<1>3. S \subseteq sessions /\ Single(S) /\ Replaced(S, g) /\ Apart(S, g)
  BY <1>2 DEF Excused, Others
<1>4. ASSUME NEW F \in SUBSET (1 .. sent), Few(F), Behind(F), NEW T \in SUBSET S,
             T = Others(F)', \A x \in T : x.dev # s.dev
      PROVE  ExcessInv'
  <2>1. Few(F)' /\ Behind(F)' /\ F \in SUBSET (1 .. sent')
    BY <1>1, <1>4 DEF Few, Behind
  <2>2. Single(T)'
    BY <1>1, <1>3, <1>4 DEF Single
  <2>3. Replaced(T, g)' /\ Apart(T, g)'
    BY <1>1, <1>3 DEF Replaced, Apart, Fresh
  <2> QED BY <1>4, <2>1, <2>2, <2>3, ExcusedNext
<1>5. ASSUME NEW y \in S, y # s, y.dev = s.dev PROVE ExcessInv'
  <2>1. s \notin S
    BY <1>3, <1>5 DEF Single
  <2>2. s.req \in E
    BY <1>2, <2>1 DEF Others
  <2>3. PICK F : F = (E \ {s.req}) \cup {y.req}
    OBVIOUS
  <2>4. y \in sessions /\ y.req \in 1 .. sent
    BY <1>3, Fields
  <2>5. F \in SUBSET (1 .. sent) /\ Few(F)
    BY <2>2, <2>3, <2>4, SwapFew DEF Excused
  <2>6. Behind(F)
    BY <2>3, <2>4 DEF Excused, Behind, NamesInv
  <2>7. PICK T : T = Others(F)'
    OBVIOUS
  <2>8. T \subseteq S /\ y \notin T
    BY <1>1, <1>2, <2>3, <2>7 DEF Others, NamesInv
  <2>9. \A x \in T : x.dev # s.dev
    BY <1>3, <1>5, <2>8 DEF Single
  <2> QED BY <1>4, <2>5, <2>6, <2>7, <2>8, <2>9
<1>6. CASE \A y \in S : y # s => y.dev # s.dev
  <2>1. PICK T : T = Others(E)'
    OBVIOUS
  <2>2. T \subseteq S /\ s \notin T
    BY <1>1, <1>2, <2>1 DEF Others
  <2> QED BY <1>4, <1>6, <2>1, <2>2 DEF Excused
<1> QED BY <1>5, <1>6

\* The browser gives up: E gains the request it waited for.
LEMMA ExcessGiveUp ==
    ASSUME TypeOK, NamesInv, GiveUp,
           NEW E \in SUBSET (1 .. sent), NEW g \in [Ids -> Nat], Excused(E, g)
    PROVE  ExcessInv'
<1>1. /\ awaited # 0 /\ awaited' = 0 /\ abandoned' = abandoned + 1
      /\ UNCHANGED <<now, cookie, sent, inflight, sessions, bound>>
  BY DEF GiveUp
<1>2. PICK F : F = E \cup {awaited}
  OBVIOUS
<1>3. F \in SUBSET (1 .. sent)
  <2>1. awaited \in 0 .. sent /\ sent \in Nat
    BY Fields
  <2>2. awaited \in 1 .. sent
    BY <1>1, <2>1
  <2> QED BY <1>2, <2>2
<1>4. /\ IsFiniteSet(E) /\ Cardinality(E) \in Nat /\ Cardinality(E) <= abandoned
      /\ abandoned \in Nat
  BY FS_CardinalityType DEF Excused, Few, TypeOK
<1>5. IsFiniteSet(F) /\ (Cardinality(F) = Cardinality(E) \/ Cardinality(F) = Cardinality(E) + 1)
  BY <1>2, <1>4, FS_AddElement
<1>6. Few(F)'
  BY <1>1, <1>4, <1>5 DEF Few
<1>7. Behind(F)'
  BY <1>1, <1>2, <1>3 DEF Excused, Behind
<1>8. PICK S : S = Others(E)
  OBVIOUS
<1>9. S = Others(F)'
  BY <1>1, <1>2, <1>8 DEF Others, NamesInv
<1>10. \A q \in inflight : q.req # 0
  BY Fields
<1>11. Single(S) /\ Replaced(S, g) /\ Apart(S, g)
  BY <1>8 DEF Excused
<1>12. Single(S)' /\ Replaced(S, g)' /\ Apart(S, g)'
  BY <1>1, <1>10, <1>11 DEF Single, Replaced, Apart
<1> QED BY <1>1, <1>3, <1>6, <1>7, <1>9, <1>12, ExcusedNext

\* Every step keeps the bound on the sessions in excess.
LEMMA ExcessStep ==
    ASSUME TypeOK, NamesInv, AwaitedInv, ExcessInv, [Next]_vars
    PROVE  ExcessInv'
<1>1. PICK E \in SUBSET (1 .. sent), g \in [Ids -> Nat] : Excused(E, g)
  BY DEF ExcessInv
<1>2. CASE Tick \/ UNCHANGED vars
  <2>1. UNCHANGED <<cookie, sent, awaited, inflight, sessions, bound, abandoned>>
    BY <1>2 DEF Tick, vars
  <2>2. PICK S : S = Others(E)
    OBVIOUS
  <2>3. S = Others(E)' /\ Single(S)' /\ Replaced(S, g)' /\ Apart(S, g)'
    BY <1>1, <2>1, <2>2 DEF Excused, Others, Single, Replaced, Apart, Fresh
  <2>4. Few(E)' /\ Behind(E)' /\ E \in SUBSET (1 .. sent')
    BY <1>1, <2>1 DEF Excused, Few, Behind
  <2> QED BY <2>3, <2>4, ExcusedNext
<1> QED BY <1>1, <1>2, ExcessCheck, ExcessReject, ExcessCreate, ExcessRelease, ExcessGiveUp
        DEF Next

-----------------------------------------------------------------------------
(* Safety *)

\* A browser without a cookie and without sessions satisfies the invariant.
LEMMA InvInit == Init => Inv
<1> SUFFICES ASSUME Init PROVE Inv
  OBVIOUS
<1>1. TypeOK
  BY Constants DEF Init, TypeOK
<1>2. NamesInv /\ AwaitedInv /\ CountInv
  BY DEF Init, NamesInv, AwaitedInv, CountInv
<1>3. ExcessInv
  <2> DEFINE g == [d \in Ids |-> 0]
  <2>1. g \in [Ids -> Nat] /\ {} \in SUBSET (1 .. sent)
    OBVIOUS
  <2>2. Few({}) /\ Behind({}) /\ Others({}) = {}
    BY FS_EmptySet DEF Init, Few, Behind, Others
  <2>3. Single({}) /\ Replaced({}, g) /\ Apart({}, g)
    BY DEF Single, Replaced, Apart
  <2>4. Excused({}, g)
    BY <2>2, <2>3 DEF Excused
  <2> QED BY <2>1, <2>4 DEF ExcessInv
<1> QED BY <1>1, <1>2, <1>3 DEF Inv

\* The inductive invariant holds throughout.
LEMMA InvHolds == Spec => []Inv
<1>1. Inv /\ [Next]_vars => Inv'
  BY TypeStep, NamesStep, AwaitedStep, CountStep, ExcessStep DEF Inv
<1> QED BY <1>1, InvInit, PTL DEF Spec

\* The browser's cookie, the requests in progress and the sessions keep their
\* types, and only a device with a session is bound.
THEOREM TypeCorrect == Spec => []TypeOK
<1>1. Inv => TypeOK
  BY DEF Inv
<1> QED BY <1>1, InvHolds, PTL

\* A set without two different elements has one at most.
LEMMA AtMostOne ==
    ASSUME NEW S, \A x, y \in S : x = y
    PROVE  IsFiniteSet(S) /\ Cardinality(S) \in 0 .. 1
<1>1. CASE S = {}
  BY <1>1, FS_EmptySet
<1>2. ASSUME NEW x \in S PROVE IsFiniteSet(S) /\ Cardinality(S) \in 0 .. 1
  <2>1. S = {x}
    OBVIOUS
  <2>2. IsFiniteSet({x}) /\ Cardinality({x}) = 1
    BY FS_Singleton
  <2> QED BY <2>1, <2>2
<1> QED BY <1>1, <1>2

\* The size of a union.
LEMMA UnionBound ==
    ASSUME NEW S, NEW T, IsFiniteSet(S), IsFiniteSet(T)
    PROVE  /\ IsFiniteSet(S \cup T) /\ Cardinality(S \cup T) \in Nat
           /\ Cardinality(S \cup T) <= Cardinality(S) + Cardinality(T)
<1>1. IsFiniteSet(S \cup T) /\ IsFiniteSet(S \cap T)
  BY FS_Union, FS_Intersection
<1>2. Cardinality(S \cup T) = Cardinality(S) + Cardinality(T) - Cardinality(S \cap T)
  BY FS_Union
<1>3. /\ Cardinality(S) \in Nat /\ Cardinality(T) \in Nat
      /\ Cardinality(S \cap T) \in Nat /\ Cardinality(S \cup T) \in Nat
  BY <1>1, FS_CardinalityType
<1> QED BY <1>1, <1>2, <1>3

\* An injection into a finite set.
LEMMA InjectionBound ==
    ASSUME NEW S, NEW T, IsFiniteSet(T), NEW f \in [S -> T],
           \A x, y \in S : f[x] = f[y] => x = y
    PROVE  IsFiniteSet(S) /\ Cardinality(S) \in Nat /\ Cardinality(S) <= Cardinality(T)
<1>1. f \in Injection(S, T)
  BY DEF Injection, IsInjective
<1>2. IsFiniteSet(S) /\ Cardinality(S) <= Cardinality(T)
  BY <1>1, FS_Injection DEF ExistsInjection
<1> QED BY <1>2, FS_CardinalityType

\* The sessions outside E of devices the browser no longer is: those that are
\* active were created less than a TTL and a second after the cookie that took
\* the device's place, and these cookies are a lifetime apart.
LEMMA OldSessions ==
    ASSUME Inv, NEW g \in [Ids -> Nat], NEW B \in SUBSET Active,
           \A s \in B : s.dev # cookie.id,
           Single(B), Replaced(B, g), Apart(B, g)
    PROVE  /\ IsFiniteSet(B) /\ Cardinality(B) \in Nat
           /\ Cardinality(B) <= 1 + (TTL + Second - 1) \div MaxAge
<1> DEFINE n == (TTL + Second - 1) \div MaxAge
           age(s) == now - g[s.dev]
           f == [s \in B |-> age(s) \div MaxAge]
<1> USE DEF Inv
<1>1. ASSUME NEW s \in B PROVE age(s) \in 0 .. TTL + Second - 1
  <2>1. s \in sessions /\ now <= s.until
    BY DEF Active
  <2>2. s.dev \in Ids /\ s.until \in Nat /\ now \in Nat /\ g[s.dev] \in Nat
    BY <2>1, Fields, Constants
  <2>3. cookie # NoCookie /\ s.until < g[s.dev] + Second + TTL /\ g[s.dev] <= cookie.ts
    BY DEF Replaced
  <2>4. cookie.ts \in Nat /\ cookie.ts <= now
    BY <2>3, Fields
  <2> QED BY <2>1, <2>2, <2>3, <2>4, Constants
<1>2. TTL + Second - 1 \in Nat /\ MaxAge \in Nat \ {0} /\ n \in Nat
  <2>1. TTL + Second - 1 \in Nat /\ MaxAge \in Nat \ {0}
    BY Constants
  <2> QED BY <2>1, DivFacts
<1>3. ASSUME NEW s \in B PROVE age(s) \div MaxAge \in 0 .. n
  <2>1. age(s) \in Nat /\ age(s) <= TTL + Second - 1
    BY <1>1, <1>2
  <2> HIDE DEF age
  <2> QED BY <1>2, <2>1, DivMonotone
<1>4. ASSUME NEW s \in B, NEW t \in B, s # t PROVE age(s) \div MaxAge # age(t) \div MaxAge
  <2>1. s.dev # t.dev
    BY <1>4 DEF Single
  <2>2. g[s.dev] + MaxAge <= g[t.dev] \/ g[t.dev] + MaxAge <= g[s.dev]
    BY <1>4, <2>1 DEF Apart
  <2>3. s.dev \in Ids /\ t.dev \in Ids /\ now \in Nat
    BY Fields DEF Active
  <2>4. g[s.dev] \in Nat /\ g[t.dev] \in Nat
    BY <2>3
  <2>5. age(t) + MaxAge <= age(s) \/ age(s) + MaxAge <= age(t)
    BY <1>2, <2>2, <2>3, <2>4
  <2>6. age(s) \in Nat /\ age(t) \in Nat
    BY <1>1, <1>2
  <2> HIDE DEF age
  <2> QED BY <1>2, <2>5, <2>6, Quotients
<1>5. f \in [B -> 0 .. n] /\ \A s, t \in B : f[s] = f[t] => s = t
  BY <1>3, <1>4
<1>6. IsFiniteSet(0 .. n) /\ Cardinality(0 .. n) = n + 1
  BY <1>2, FS_Interval
<1> HIDE DEF n, f
<1>7. IsFiniteSet(B) /\ Cardinality(B) \in Nat /\ Cardinality(B) <= Cardinality(0 .. n)
  BY <1>5, <1>6, InjectionBound
<1> QED BY <1>2, <1>6, <1>7 DEF n

\* The active sessions outside E are one at most of the browser's cookie, and
\* those of the cookies before it; those in E are as few as E.
LEMMA InvBound == Inv => ActiveSessionsBounded
<1> SUFFICES ASSUME Inv PROVE ActiveSessionsBounded
  OBVIOUS
<1>1. PICK E \in SUBSET (1 .. sent), g \in [Ids -> Nat] : Excused(E, g)
  BY DEF ExcessInv, Inv
<1> DEFINE X == {s \in Active : s.req \in E}
           A == {s \in Active : s.req \notin E /\ s.dev = cookie.id}
           B == {s \in Active : s.req \notin E /\ s.dev # cookie.id}
           n == (TTL + Second - 1) \div MaxAge
<1>2. A \subseteq Others(E) /\ B \subseteq Others(E)
  BY DEF Others, Active
<1>3. IsFiniteSet(A) /\ Cardinality(A) \in 0 .. 1
  <2>1. \A s, t \in A : s = t
    BY <1>1, <1>2 DEF Excused, Single
  <2> HIDE DEF A
  <2> QED BY <2>1, AtMostOne
<1>4. IsFiniteSet(B) /\ Cardinality(B) \in Nat /\ Cardinality(B) <= 1 + n
  <2>1. Single(B) /\ Replaced(B, g) /\ Apart(B, g)
    BY <1>1, <1>2 DEF Excused, Single, Replaced, Apart
  <2>2. B \subseteq Active /\ \A s \in B : s.dev # cookie.id
    OBVIOUS
  <2> HIDE DEF B
  <2> QED BY <1>1, <2>1, <2>2, OldSessions
<1>5. /\ Cardinality(E) \in Nat /\ Cardinality(E) <= abandoned /\ IsFiniteSet(E)
      /\ abandoned \in Nat
  BY <1>1, FS_CardinalityType DEF Excused, Few, Inv, TypeOK
<1>6. IsFiniteSet(X) /\ Cardinality(X) \in Nat /\ Cardinality(X) <= Cardinality(E)
  <2> DEFINE f == [s \in X |-> s.req]
  <2>1. f \in [X -> E] /\ \A s, t \in X : f[s] = f[t] => s = t
    BY DEF Active, Inv, NamesInv
  <2> HIDE DEF f, X
  <2> QED BY <1>5, <2>1, InjectionBound
<1>7. Active = (A \cup B) \cup X
  OBVIOUS
<1>8. n \in Nat
  <2>1. TTL + Second - 1 \in Nat /\ MaxAge \in Nat \ {0}
    BY Constants
  <2> QED BY <2>1, DivFacts
<1> HIDE DEF A, B, X, n
<1>9. /\ IsFiniteSet(A \cup B) /\ Cardinality(A \cup B) \in Nat
      /\ Cardinality(A \cup B) <= Cardinality(A) + Cardinality(B)
  BY <1>3, <1>4, UnionBound
<1>10. /\ Cardinality((A \cup B) \cup X) \in Nat
       /\ Cardinality((A \cup B) \cup X) <= Cardinality(A \cup B) + Cardinality(X)
  BY <1>6, <1>9, UnionBound
<1>11. Cardinality(Active) <= 2 + n + abandoned
  BY <1>3, <1>4, <1>5, <1>6, <1>7, <1>8, <1>9, <1>10
<1> QED BY <1>11 DEF ActiveSessionsBounded, n

\* For any lifetimes of cookie and session, any time a creation or the reaper
\* takes and any timing of the browser: a browser holds the sessions of the
\* cookie it has and of the one before, one more for each further lifetime of a
\* cookie in that of a session, and one for each request it gave up on.
THEOREM BrowserBounded == Spec => []ActiveSessionsBounded
BY InvBound, InvHolds, PTL
=============================================================================
