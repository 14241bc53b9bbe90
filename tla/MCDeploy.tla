------------------------------- MODULE MCDeploy -------------------------------
(* Two people deploy: one a file of two agents whose bundle says more than its answer,     *)
(* one a file with the first of them whose bundle is good, for two workers to check.       *)
EXTENDS Deploy, TLC

CONSTANTS d1, d2, w1, w2, none

Row(key, zone) == [key |-> key, zone |-> zone]

Both(imports, crons, hooks, others) ==
  [agents |-> <<"triage", "digest">>, imports |-> imports,
   declares |-> (<<"triage", "schedule">> :> crons @@ <<"triage", "webhook">> :> hooks
                 @@ <<"digest", "schedule">> :> others @@ <<"digest", "webhook">> :> {})]

One(imports, crons, hooks) ==
  [agents |-> <<"triage">>, imports |-> imports,
   declares |-> (<<"triage", "schedule">> :> crons @@ <<"triage", "webhook">> :> hooks)]

Daily == Row("daily", "UTC")
Hourly == Row("hourly", "UTC")
Mail == Row("mail", "UTC")

SomeTrees ==
  d1 :> {Both("noisy", {Daily, Hourly}, {}, {Daily})}
  @@ d2 :> {One("ok", {Hourly}, {Mail})}

================================================================================
