---------------------------- MODULE Expressions -----------------------------
(* The scalar expressions of Polars: what they read, their values and their  *)
(* types.  External to the repository, like Polars.                          *)
EXTENDS Polars

(* Expressions: columns, literals and binary operators; null is contagious.  *)
RECURSIVE ExprColumns(_), Value(_, _), ExprType(_, _)
ExprColumns(e) ==
    CASE e.e = "col" -> {e.name}
      [] e.e = "lit" -> {}
      [] e.e = "bin" -> ExprColumns(e.l) \cup ExprColumns(e.r)

Compute(op, a, b) ==
    CASE op = "+" -> a + b
      [] op = "-" -> a - b
      [] op = "*" -> a * b
      [] op = "==" -> a = b
      [] op = "!=" -> a # b
      [] op = "<" -> a < b
      [] op = ">" -> a > b
      [] op = "<=" -> a =< b
      [] op = ">=" -> a >= b

Value(e, row) ==
    CASE e.e = "col" -> row[e.name]
      [] e.e = "lit" -> e.v
      [] e.e = "bin" -> LET a == Value(e.l, row)
                            b == Value(e.r, row)
                        IN  IF Null \in {a, b} THEN Null ELSE Compute(e.op, a, b)

ExprType(e, cols) ==
    CASE e.e = "col" -> cols[e.name].t
      [] e.e = "lit" -> e.t
      [] e.e = "bin" -> IF e.op \in {"+", "-", "*"}
                        THEN IF "float" \in {ExprType(e.l, cols), ExprType(e.r, cols)}
                             THEN "float" ELSE "int"
                        ELSE "bool"
=============================================================================
