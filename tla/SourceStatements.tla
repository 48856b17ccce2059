-------------------------- MODULE SourceStatements --------------------------
(***************************************************************************)
(* What the index's parser tells apart in a source text: a text is a set   *)
(* of these statements.                                                    *)
(***************************************************************************)

\* export const f, export default class f, and a use of a name
Declare(n) == [form |-> "declare", name |-> n]
DeclareDefault(n) == [form |-> "declareDefault", name |-> n]
Use(n) == [form |-> "use", name |-> n]
\* n.f, where n is an imported namespace or an imported name
Member(q, n) == [form |-> "member", qualifier |-> q, name |-> n]

\* import { i as l } from s, export { i as l } from s, export * from s,
\* import * as l from s, export { n }
Import(i, l, s) == [form |-> "import", imported |-> i, local |-> l, from |-> s]
ReExport(i, l, s) == [form |-> "reexport", imported |-> i, local |-> l, from |-> s]
Star(s) == [form |-> "star", from |-> s]
Namespace(l, s) == [form |-> "namespace", local |-> l, from |-> s]
ExportLocal(n) == [form |-> "exportLocal", name |-> n]

\* A top-level class at a position, with and without a base; a class the
\* parser does not place; any other top-level declaration of a name
Class(p, n, e) == [form |-> "class", at |-> p, name |-> n, base |-> <<>>, exported |-> e]
Extends(p, n, b, e) == [form |-> "class", at |-> p, name |-> n, base |-> <<b>>, exported |-> e]
Nested == [form |-> "nested"]
Other(n) == [form |-> "other", name |-> n]

\* Delimiters or literals the tokenizer rejects
Broken == [form |-> "broken"]

Form(stmts, f) == {s \in stmts : s.form = f}
=============================================================================
