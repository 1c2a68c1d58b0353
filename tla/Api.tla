-------------------------------- MODULE Api --------------------------------
(***************************************************************************)
(* The parts of the API that share no table and no lock, one at a time:    *)
(* each behaviour is one part's, the others rest.                          *)
(***************************************************************************)
EXTENDS Accounts, BillingPeriod, Writes, RateLimit, Identity

VARIABLE part
Parts == {"accounts", "periods", "writes", "limits", "identity"}

ApiInit ==
  /\ part \in Parts
  /\ AccountsInit /\ PeriodInit /\ WritesInit /\ RateLimitInit /\ IdentityInit
  /\ part # "periods" => anchor = 1 /\ periods = {}

ApiNext ==
  /\ UNCHANGED part
  /\ \/ /\ part = "accounts" /\ AccountsNext
        /\ UNCHANGED <<periodVars, writeVars, limitVars, identityVars>>
     \/ /\ part = "periods" /\ PeriodNext
        /\ UNCHANGED <<accountVars, writeVars, limitVars, identityVars>>
     \/ /\ part = "writes" /\ WritesNext
        /\ UNCHANGED <<accountVars, periodVars, limitVars, identityVars>>
     \/ /\ part = "limits" /\ RateLimitNext
        /\ UNCHANGED <<accountVars, periodVars, writeVars, identityVars>>
     \/ /\ part = "identity" /\ IdentityNext
        /\ UNCHANGED <<accountVars, periodVars, writeVars, limitVars>>

apiVars == <<part, accountVars, periodVars, writeVars, limitVars, identityVars>>

ApiSpec == ApiInit /\ [][ApiNext]_apiVars /\ (part = "accounts" => FairAccounts)

\* Every part keeps its variables within their types: subscriptions and what
\* requests have read of them, period rows and dates, stored rows, the limiter's
\* queues, users and accounts.
ApiTypeOK ==
  AccountsTypeOK /\ PeriodTypeOK /\ WritesTypeOK /\ RateLimitTypeOK /\ IdentityTypeOK
=============================================================================
