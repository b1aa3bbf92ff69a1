--------------------------- MODULE MCDataBinding ---------------------------
(***************************************************************************)
(* A label that shows a count, rounded, a slider bound both ways and a     *)
(* list of rows; in the nested artboard a hint from a form and a field     *)
(* that sets the outer count; and a machine that reads the volume and can  *)
(* set it.  The second instance holds no form.                             *)
(***************************************************************************)
EXTENDS DataBinding, TLC

By(op, by) == [op |-> op, by |-> by]

Own == <<"label", "slider", "rows">>
Nested == <<"hint", "field">>
Machine == <<"reads", "sets">>
AllBinds == Range(Own \o Nested \o Machine)

Plain == [b \in AllBinds |-> <<>>]
Converters == [Plain EXCEPT !["label"] = <<By("add", 1), By("round", 0)>>,
                            !["slider"] = <<By("add", 1)>>,
                            !["reads"] = <<By("add", 1)>>]
Targets == "label" :> "text" @@ "slider" :> "x" @@ "hint" :> "note" @@ "field" :> "input" @@
           "reads" :> "bindable" @@ "sets" :> "bindable"
Models == [b \in AllBinds |-> IF b = "hint" THEN "form" ELSE "main"]
Reads == "label" :> "count" @@ "slider" :> "volume" @@ "rows" :> "list" @@
         "hint" :> "count" @@ "field" :> "count" @@ "reads" :> "volume" @@ "sets" :> "volume"

Two == {"first", "second", "form"}
Holds == "first" :> "form" @@ "second" :> None @@ "form" :> None
IsOf == "first" :> "main" @@ "second" :> "main" @@ "form" :> "form"
Rows == "first" :> <<"r1", "r2">> @@ "second" :> <<"r2">> @@ "form" :> <<>>
=============================================================================
