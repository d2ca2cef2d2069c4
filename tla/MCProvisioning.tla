--------------------------- MODULE MCProvisioning ---------------------------
(* Two processes and one machine.  One starts and cleans, the other starts  *)
(* with an account, changes the running guest and stops it.                 *)
EXTENDS Provisioning

CONSTANTS s1, t1

plain == NoOptions
\* A request that names no mode asks for "rose".
container == {<<"mode", "rose">>, <<"container", "yes">>}
advanced == {<<"mode", "advanced">>}

Does(kind, q) == [kind |-> kind, q |-> q]

Locked  == [plain EXCEPT !.login = {TRUE}, !.noAdmin = {TRUE}]
Person  == [plain EXCEPT !.user = {"u"}, !.pkgs = {"x"}, !.level = {"p1"}]
Renewal == [plain EXCEPT !.level = {"p1"}]

MCProc  == {s1, t1}
MCCalls == [p \in MCProc |-> IF p = s1 THEN 3 ELSE 2]
MCOps ==
    [p \in MCProc |->
       IF p = s1 THEN {Does("start", plain), Does("start", Locked), Does("clean", plain)}
       ELSE {Does("start", Person), Does("stop", plain), Does("license", Renewal),
             Does("set", [plain EXCEPT !.dm = container]),
             Does("set", [plain EXCEPT !.dm = advanced]),
             Does("install", [plain EXCEPT !.pkgs = {"y"}])}]

MCIntents == {[plain EXCEPT !.dm = advanced, !.pkgs = {"x"}],
              [plain EXCEPT !.all = {TRUE}, !.login = {TRUE}]}

MCAvailable == {"x", "y"}

\* One process that gives its first boot another mode than add() recorded.
OneProc  == {s1}
OneCalls == [p \in OneProc |-> 1]
OneOps   == [p \in OneProc |->
               {Does("start", [plain EXCEPT !.dm = {<<"mode", "rose">>}]),
                Does("start", [plain EXCEPT !.dm = advanced])}]

\* Two processes that start the machine, one of them with an option.
StartOps == [p \in MCProc |->
               {Does("start", IF p = s1 THEN plain ELSE [plain EXCEPT !.pkgs = {"x"}])}]
StartCalls == [p \in MCProc |-> 1]
NoIntents  == {plain}

=============================================================================
