-------------------------------- MODULE Trees -------------------------------
(* The nodes of the syntax tree, as the Make functions of Parser.cpp build  *)
(* them: the kind and then the fields the parser fills in. Where the code   *)
(* has a null pointer a field is Absent; where it has the pointer 1, Done.  *)
EXTENDS Naturals, Sequences

Absent == <<"absent">>
Done == <<"done">>

MakeError == <<"error">>
IsError(n) == n[1] = "error"
MakeShortLambda(args, expr, body) == <<"lambda", args, expr, body>>
MakeSliceExpr(e, from, to) == <<"slice", e, from, to>>
MakeFileLocation == <<"filelocation">>
MakePostOp(e, op) == <<"postop", op, e>>
MakeRun(body) == <<"run", body>>
MakeTypedExpr(kind, e) == <<kind, e>>
MakeAssert(e) == <<"assert", e>>
MakeVar(name, type, default) == <<"var", name, type, default>>
MakeList(nodes) == <<"list", nodes>>
MakeScope(up) == <<"scope", up>>
MakeEmbed(file, text) == <<"embed", file, text>>
MakeTypeInfo(e) == <<"typeinfo", e>>
MakeDefer(body) == <<"defer", body>>
MakeCase(v, body) == <<"case", v, body>>
MakeSwitch(e, cases) == <<"switch", e, cases>>
MakeCharLiteral(c) == <<"char", c>>
MakeReserve(name) == <<"reserved", name>>
MakeContinue == <<"continue">>
MakeBreak == <<"break">>
MakeGenericNode(name) == <<"generic", name>>
MakeTypeOf(e) == <<"typeof", e>>
MakeSize(e) == <<"size", e>>
MakeSelector(e, member) == <<"selector", e, member>>
MakeEnum(name, items, type) == <<"enum", name, items, type>>
MakeStructDecl(name, members, params, flags) == <<"struct", name, members, params, flags>>
MakeIndex(e, i) == <<"index", e, i>>
MakeListItem(name, e) == <<"item", name, e>>
MakeTypeList(type, items) == <<"typelist", type, items>>
MakeCall(f, args) == <<"call", f, args>>
MakeIfX(c, t, f) == <<"ifx", c, t, f>>
MakeIf(c, body, otherwise) == <<"if", c, body, otherwise>>
MakeFor(kind, e1, e2, e3, body) == <<"for", kind, e1, e2, e3, body>>
MakeCast(e, type, bits) == <<"cast", e, type, bits>>
MakeReturn(e) == <<"return", e>>
MakeFunction(name, args, returns, flags, body) == <<"fn", name, args, returns, flags, body>>
MakeUnary(e, op) == <<"unary", op, e>>
MakeBinary(l, r, op) == <<"binary", op, l, r>>
MakeID(name) == <<"id", name>>
MakePointerType(type, optional) == <<"pointer", type, optional>>
MakeArrayType(type, e) == <<"array", type, e>>
MakeGenericStructType(id, args) == <<"genericstruct", id, args>>
MakeDecl(lhs, e, type, flags) == <<"decl", lhs, e, type, flags>>
MakeConstant(v) == <<"constant", v>>
=============================================================================
