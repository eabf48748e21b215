------------------------------ MODULE MCIngest -------------------------------
EXTENDS Ingest, TLC

MCDigit == "0" :> 0 @@ "1" :> 1 @@ "2" :> 2
=============================================================================
