-------------------------------- MODULE Proxies --------------------------------
(***************************************************************************)
(* Proxy objects.  The traps of a handler answer whatever they like and    *)
(* the target changes under them as its own rules allow; the proxy checks  *)
(* each answer against the target.  What a program has been told through   *)
(* the proxy is kept as claims, which no later answer may contradict.      *)
(***************************************************************************)
EXTENDS Integers, Sequences, FiniteSets, TLC

CONSTANTS
    Protos,         \* objects a prototype may be
    Values,         \* values of the property
    Enums           \* of BOOLEAN, the values of enumerable

VARIABLES
    target,     \* [prop, ext, proto, via]: no property or one, under the key "k";
                \* via, whether the target is a proxy itself, without traps
    revoked,
    claims      \* what the proxy has told as the language lets it

vars == <<target, revoked, claims>>

Undefined == "undefined"
Function == "function"
Throw == "throw"
Answers == {"true", "false"}
Data == [c : BOOLEAN, w : BOOLEAN, e : Enums, acc : {FALSE}, val : Values, get : {Undefined}, set : {Undefined}]
Accessor == [c : BOOLEAN, w : {FALSE}, e : Enums, acc : {TRUE}, val : {Undefined},
             get : {Undefined, Function}, set : {Undefined, Function}]
Properties == Data \cup Accessor
\* A descriptor that stands for an exception.
Thrown == [c |-> FALSE, w |-> FALSE, e |-> FALSE, acc |-> FALSE, val |-> Throw, get |-> Undefined, set |-> Undefined]
Targets == [prop : {{}} \cup {{p} : p \in Properties}, ext : BOOLEAN, proto : Protos, via : BOOLEAN]

Init ==
    /\ target \in {t \in Targets : t.ext}
    /\ revoked = FALSE
    /\ claims = [held |-> FALSE, prop |-> {}, closed |-> FALSE, proto |-> {}, gone |-> FALSE]

-----------------------------------------------------------------------------
(* Descriptors as defineProperty gets them: the fields that are given.     *)

Has(d, f) == f \in DOMAIN d
IsAccessor(d) == Has(d, "get") \/ Has(d, "set")
Optional(f, S) == {<<>>} \cup [{f} -> S]
Merged(A, B) == {a @@ b : a \in A, b \in B}
Descs ==
    Merged(Optional("c", BOOLEAN),
           Merged(Optional("val", Values), Optional("w", BOOLEAN))
             \cup Merged(Optional("get", {Undefined, Function}), Optional("set", {Undefined, Function})))

\* What an ordinary object may become: a configurable property anything, another
\* one only loses writable, or its value while it is writable.
Fixed(p, q) ==
    /\ ~q.c /\ q.e = p.e /\ q.acc = p.acc /\ q.get = p.get /\ q.set = p.set
    /\ p.w \/ (~q.w /\ q.val = p.val)
MayBecome(t, u) ==
    /\ u.ext => t.ext
    /\ ~t.ext => u.proto = t.proto /\ (t.prop = {} => u.prop = {})
    /\ \A p \in t.prop : p.c \/ \E q \in u.prop : Fixed(p, q)

\* ValidateAndApplyPropertyDescriptor on the target.
Given(d, f, old) == IF Has(d, f) THEN d[f] ELSE old
DefaultProp(d) ==
    [c |-> FALSE, w |-> FALSE, e |-> CHOOSE e \in Enums : TRUE, acc |-> IsAccessor(d),
     val |-> Undefined, get |-> Undefined, set |-> Undefined]
Refined(p, d) ==
    LET turned == IsAccessor(d) # p.acc /\ DOMAIN d \ {"c"} # {}
        old == IF turned THEN [DefaultProp(d) EXCEPT !.c = p.c, !.e = p.e] ELSE p
    IN [f \in DOMAIN p |-> Given(d, f, old[f])]
-----------------------------------------------------------------------------
(* The traps.  Each operator gives what the proxy tells, given the target  *)
(* after the trap and the trap's answer.                                   *)

\* JS_IsExtensible asks the target; some checks read the flag of the object,
\* which a proxy never loses.
IsExtensible(t) == t.ext
FlagOf(t) == t.via \/ t.ext

GetPrototypeOf(t, ans) ==
    IF ans \notin Protos \/ (~IsExtensible(t) /\ ans # t.proto) THEN Throw ELSE ans

SetPrototypeOf(t, proto, ans) ==
    IF ans = "true" /\ ~IsExtensible(t) /\ proto # t.proto THEN Throw ELSE ans

ProxyIsExtensible(t, ans) == IF (ans = "true") # IsExtensible(t) THEN Throw ELSE ans

\* Mutant: the answer is believed.
PreventExtensions(t, ans) == IF ans = "true" /\ IsExtensible(t) THEN Throw ELSE ans

\* Mutant: no is refused whenever the target cannot be extended.
ProxyHas(t, ans) ==
    IF ans = "false" /\ \E p \in t.prop : ~p.c \/ ~FlagOf(t) THEN Throw ELSE ans

\* Mutant: a getter that is missing is not looked at.
ProxyGet(t, ans) ==
    IF \E p \in t.prop : \/ ~p.acc /\ ~p.c /\ ~p.w /\ ans # p.val
                         \/ p.acc /\ ~p.c /\ p.get = Undefined /\ ans # Undefined
    THEN Throw ELSE ans

ProxySet(t, v, ans) ==
    IF ans = "true" /\ \E p \in t.prop : \/ ~p.acc /\ ~p.c /\ ~p.w /\ v # p.val
                                         \/ p.acc /\ ~p.c /\ p.set = Undefined
    THEN Throw ELSE ans

\* check_define_prop_flags.
CheckFlags(p, d) ==
    p.c \/ /\ ~Given(d, "c", FALSE) /\ Given(d, "e", p.e) = p.e
           /\ DOMAIN d \cap {"val", "w", "get", "set"} # {} =>
                 /\ IsAccessor(d) = p.acc
                 /\ ~p.acc /\ ~p.w => ~Given(d, "w", FALSE)

\* js_obj_to_desc notes that there is a getter or a setter but not the kind of
\* the property, so that the descriptor that is passed on reads as data.
ObjToDesc(p) == [p EXCEPT !.acc = FALSE, !.get = Undefined, !.set = Undefined]
\* The fields that the checks of a result look at.
AsGiven(p) == [f \in {"c", "e", "w"} \cup (IF p.acc THEN {"get", "set"} ELSE {"val"}) |-> p[f]]

\* The answer is {} for undefined, or a descriptor.
\* Mutant: a property the target has not may be told of.
GetOwnAnything(t, ans) ==
    IF \E p \in ans : \E q \in t.prop : ~CheckFlags(q, AsGiven(p)) THEN {Thrown} ELSE {ObjToDesc(p) : p \in ans}
GetOwnProperty(t, ans) ==
    LET consistent(p) ==
            /\ IF t.prop = {} THEN IsExtensible(t) ELSE \A q \in t.prop : CheckFlags(q, AsGiven(p))
            /\ ~p.c => \E q \in t.prop : ~q.c /\ ~(~p.w /\ q.w)
    IN CASE ans = {} -> IF \E q \in t.prop : ~q.c \/ ~FlagOf(t) THEN {Thrown} ELSE {}
         [] OTHER -> IF \A p \in ans : consistent(p) THEN {ObjToDesc(p) : p \in ans} ELSE {Thrown}

DefineRefused(q, d) ==
    \/ ~CheckFlags(q, d) \/ (q.c /\ Has(d, "c") /\ ~d.c)
    \/ IsAccessor(d) /\ q.acc /\ ~q.c /\ (Given(d, "get", q.get) # q.get \/ Given(d, "set", q.set) # q.set)
    \/ ~IsAccessor(d) /\ Has(d, "val") /\ ~q.c /\ IF q.w THEN ~Given(d, "w", FALSE) ELSE d.val # q.val
    \/ Has(d, "w") /\ ~q.acc /\ ~q.c /\ q.w
DefineOwnProperty(t, d, ans) ==
    CASE ans = "false" -> ans
      [] ans = "true" /\ t.prop = {} -> IF ~FlagOf(t) \/ (Has(d, "c") /\ ~d.c) THEN Throw ELSE ans
      [] OTHER -> IF \E q \in t.prop : DefineRefused(q, d) THEN Throw ELSE ans

\* Mutant: only the flag of the property is looked at.
DeleteProperty(t, ans) ==
    IF ans = "true" /\ \E p \in t.prop : ~p.c \/ ~IsExtensible(t) THEN Throw ELSE ans

\* js_proxy_get_own_property_names; the answer is a sequence of keys.
KeyLists == {<<>>, <<"k">>, <<"j">>, <<"k", "j">>, <<"k", "k">>}
Listed(s) == {s[i] : i \in DOMAIN s}
OwnKeys(t, gone, ans) ==
    LET own == IF t.prop = {} THEN {} ELSE {"k"}
    IN IF \/ Cardinality(Listed(ans)) # Len(ans) \/ gone
          \/ \E p \in t.prop : (~p.c \/ ~IsExtensible(t)) /\ "k" \notin Listed(ans)
          \/ ~IsExtensible(t) /\ Listed(ans) # own
       THEN {Throw} ELSE Listed(ans)

\* The descriptors that a trap may return.
DescAnswers == {{}} \cup {{p} : p \in Properties}

-----------------------------------------------------------------------------
(* The checks of ECMA-262, 9.5, where the code has others.                 *)

Law_Has(t, ans) == IF ans = "false" /\ \E p \in t.prop : ~p.c \/ ~t.ext THEN Throw ELSE ans

\* IsCompatiblePropertyDescriptor, for a complete descriptor and for any.
Compatible(t, p) == IF t.prop = {} THEN t.ext ELSE \A q \in t.prop : q.c \/ Fixed(q, p)
Law_GetOwn(t, ans) ==
    IF /\ ans = {} => \A q \in t.prop : q.c /\ t.ext
       /\ \A p \in ans : /\ Compatible(t, p)
                         /\ ~p.c => \E q \in t.prop : ~q.c /\ (~p.acc /\ ~p.w => ~q.w)
    THEN ans ELSE {Thrown}
Law_Define(t, d, ans) ==
    LET fixes == Has(d, "c") /\ ~d.c
        allowed == IF t.prop = {} THEN t.ext /\ ~fixes
                   ELSE \A q \in t.prop :
                          IF q.c THEN ~fixes
                          ELSE Fixed(q, Refined(q, d)) /\ (q.w => Given(d, "w", TRUE))
    IN IF ans = "true" /\ ~allowed THEN Throw ELSE ans

-----------------------------------------------------------------------------
(* Claims: held and prop, a property that is not configurable; closed,     *)
(* that there are no new properties; then proto, and gone, that "k" was    *)
(* not there after closed.  What the proxy tells against the language is   *)
(* no claim.                                                               *)

ClaimClosed == [claims EXCEPT !.closed = TRUE]
ClaimProto(p) == IF claims.closed /\ p # Throw THEN [claims EXCEPT !.proto = {p}] ELSE claims
ClaimOwn(P) ==
    CASE P = {Thrown} -> claims
      [] P = {} -> [claims EXCEPT !.gone = @ \/ claims.closed]
      [] OTHER -> IF \E p \in P : p.c THEN claims ELSE [claims EXCEPT !.held = TRUE, !.prop = P]
ClaimKeys(K) ==
    IF Throw \notin K /\ "k" \notin K /\ claims.closed THEN [claims EXCEPT !.gone = TRUE] ELSE claims

TellPrototype(ans) == claims' = ClaimProto(GetPrototypeOf(target, ans))
TellExtensible(ans) ==
    claims' = IF ProxyIsExtensible(target, ans) = "false" THEN ClaimClosed ELSE claims
TellPrevented(ans) ==
    claims' = IF PreventExtensions(target, ans) = "true" THEN ClaimClosed ELSE claims
TellOwn(ans) ==
    LET told == GetOwnProperty(target, ans)
    IN claims' = IF told = Law_GetOwn(target, ans) THEN ClaimOwn(told) ELSE claims
TellDefined(d, ans) ==
    claims' = IF DefineOwnProperty(target, d, ans) = "true" /\ Has(d, "c") /\ ~d.c
              THEN [claims EXCEPT !.held = TRUE] ELSE claims
TellKeys(ans) == claims' = ClaimKeys(OwnKeys(target, revoked, ans))

\* Without a trap the target answers itself.
Forward ==
    \/ claims' = ClaimOwn(target.prop)
    \/ claims' = IF target.ext THEN claims ELSE ClaimClosed
    \/ claims' = ClaimProto(target.proto)

\* get_proxy_method, then the trap.
Operation ==
    /\ ~revoked
    /\ \/ \E ans \in Protos : TellPrototype(ans)
       \/ \E ans \in Answers : TellExtensible(ans) \/ TellPrevented(ans)
       \/ \E ans \in DescAnswers : TellOwn(ans)
       \/ \E d \in Descs, ans \in Answers : TellDefined(d, ans)
       \/ \E ans \in KeyLists : TellKeys(ans)
       \/ Forward
    /\ UNCHANGED <<target, revoked>>

\* The program or a trap changes the target, or revokes the proxy.
Change ==
    /\ \E u \in {[target EXCEPT !.prop = P] : P \in {{}} \cup {{p} : p \in Properties}}
                  \cup {[target EXCEPT !.ext = FALSE]} \cup {[target EXCEPT !.proto = p] : p \in Protos} :
          MayBecome(target, u) /\ target' = u
    /\ UNCHANGED <<revoked, claims>>
Revoke ==
    /\ ~revoked /\ revoked' = TRUE
    /\ UNCHANGED <<target, claims>>

Next == Operation \/ Change \/ Revoke

Spec == Init /\ [][Next]_vars

-----------------------------------------------------------------------------
(* Properties: the essential invariants of ECMA-262, 6.1.7.3, that the     *)
(* checks refuse nothing but what contradicts them, and the cases in which *)
(* the code checks otherwise than the language.                            *)

\* The target is a proxy that cannot be extended: the flag says that it can.
SeenAsOpen == target.via /\ ~target.ext
\* A descriptor against a property that is not configurable: the flags agree but
\* the value, or the getter and the setter, does not.
Uncompared(ans) ==
    \E p \in ans, q \in target.prop :
        /\ ~q.c /\ ~p.c /\ p.e = q.e /\ p.acc = q.acc /\ p.w = q.w
        /\ ~Fixed(q, p)
\* A new value, or writable again, for a property that is writable only.
ValueRefused(d) ==
    \E q \in target.prop :
        /\ ~q.acc /\ ~q.c /\ q.w /\ Fixed(q, Refined(q, d))
        /\ Given(d, "w", Has(d, "val"))

\* The checks are those of the language, but for these cases.  An accessor that
\* a trap returns is told as a data property that has the value undefined.
ChecksAsLanguage ==
    /\ \A ans \in Answers :
          ProxyHas(target, ans) = IF SeenAsOpen /\ \A p \in target.prop : p.c THEN ans ELSE Law_Has(target, ans)
    /\ \A ans \in DescAnswers :
          GetOwnProperty(target, ans) =
              CASE Uncompared(ans) \/ (ans = {} /\ SeenAsOpen /\ \A q \in target.prop : q.c)
                      -> {ObjToDesc(p) : p \in ans}
                [] OTHER -> {ObjToDesc(p) : p \in Law_GetOwn(target, ans)}
    /\ \A d \in Descs, ans \in Answers :
          DefineOwnProperty(target, d, ans) =
              CASE ans = "true" /\ SeenAsOpen /\ target.prop = {} /\ Given(d, "c", TRUE) -> ans
                [] ans = "true" /\ ValueRefused(d) -> Throw
                [] OTHER -> Law_Define(target, d, ans)

\* Once told that it cannot be extended, the program is not told of another
\* prototype, that it can be extended, or of keys that it knows are not there.
ExtensibilityKept ==
    claims.closed =>
        /\ ProxyIsExtensible(target, "true") = Throw
        /\ \A q \in claims.proto :
              /\ \A p \in Protos : GetPrototypeOf(target, p) \in {q, Throw}
              /\ \A p \in Protos : SetPrototypeOf(target, p, "true") = "true" => p = q
        /\ claims.gone =>
              /\ \A ans \in DescAnswers : GetOwnProperty(target, ans) \in {{}, {Thrown}}
              /\ SeenAsOpen \/ \A d \in Descs : DefineOwnProperty(target, d, "true") = Throw
        /\ \A ans \in KeyLists : "j" \notin OwnKeys(target, FALSE, ans)
        /\ claims.gone => \A ans \in KeyLists : "k" \notin OwnKeys(target, FALSE, ans)

\* A property that was told to be not configurable is there ever after.
PresenceKept ==
    claims.held =>
        /\ ProxyHas(target, "false") = Throw
        /\ DeleteProperty(target, "true") = Throw
        /\ GetOwnProperty(target, {}) = {Thrown}
        /\ \A ans \in KeyLists : OwnKeys(target, FALSE, ans) = {Throw} \/ "k" \in OwnKeys(target, FALSE, ans)

\* And its value or its missing getter and setter are what was told.
ValueKept ==
    \A p \in claims.prop :
        /\ ~p.acc /\ ~p.w => \A v \in Values : /\ ProxyGet(target, v) \in {p.val, Throw}
                                               /\ ProxySet(target, v, "true") = "true" => v = p.val
        /\ p.acc /\ p.get = Undefined => \A v \in Values : ProxyGet(target, v) = Throw
        /\ p.acc /\ p.set = Undefined => \A v \in Values : ProxySet(target, v, "true") = Throw
        /\ \A d \in Descs : DefineOwnProperty(target, d, "true") = "true" => Fixed(p, Refined(p, d))

\* A descriptor that is told agrees with the ones before it.
DescriptorKept ==
    \A p \in claims.prop : \A ans \in DescAnswers :
        \A q \in GetOwnProperty(target, ans) :
            q = Thrown \/ Fixed(p, q) \/ Uncompared(ans) \/ \E a \in ans : a.acc

\* While it cannot be extended, what the target has is told to be there, unless
\* the target is a proxy itself.
ClosedTargetShown ==
    ~target.ext /\ target.prop # {} =>
        /\ DeleteProperty(target, "true") = Throw
        /\ target.via \/ (ProxyHas(target, "false") = Throw /\ GetOwnProperty(target, {}) = {Thrown})

\* A trap that answers as the target does is never refused.
HonestTrapsPass ==
    LET yes(b) == IF b THEN "true" ELSE "false"
        keys == IF target.prop = {} THEN <<>> ELSE <<"k">>
    IN /\ GetPrototypeOf(target, target.proto) # Throw
       /\ ProxyIsExtensible(target, yes(target.ext)) # Throw
       /\ PreventExtensions([target EXCEPT !.ext = FALSE], "true") # Throw
       /\ ProxyHas(target, yes(target.prop # {})) # Throw
       /\ OwnKeys(target, FALSE, keys) # {Throw}
       /\ \A p \in target.prop : /\ ~p.acc => ProxyGet(target, p.val) # Throw
                                 /\ p.acc => ProxyGet(target, Undefined) # Throw
       /\ DeleteProperty([target EXCEPT !.prop = {}], "true") # Throw

================================================================================
