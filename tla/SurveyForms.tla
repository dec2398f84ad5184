----------------------------- MODULE SurveyForms -----------------------------
(* What the questionnaires of the mobile app are once they arrive: which bodies the *)
(* server accepts, the content it hashes and the row it stores.  The names people   *)
(* type are one of a few texts, the answers taken from a catalogue one value, and   *)
(* dates and durations are counted in units of 30 seconds.                          *)
EXTENDS Integers, Sequences, FiniteSets, SequencesExt

(* Free text: nothing forbids a name with a ";" in it, or one that starts like a formula. *)
Texts == {"absent", "null", "blank", "name", "padded name", "other name", "name;other name",
          "=name, other", "'=name, other"}
Trimmed(t) == IF t = "padded name" THEN "name" ELSE t

textoCorto(t) == t \notin {"absent", "null", "blank"}
textoOpcional(t) == t \notin {"null", "blank"}      \* the key may be missing, not empty
listaDeNombres(list, min) == Len(list) \in min..3 /\ \A i \in DOMAIN list : textoCorto(list[i])
TrimmedNames(list) == [i \in DOMAIN list |-> Trimmed(list[i])]

-----------------------------------------------------------------------------
(* The catalogues, one entry of each kind the rules tell apart.                     *)
Governors == {"sheinbaum", "jara"}                  \* three in the program
People == {"laura", "paco"}                         \* seven in the program
Channels == {"redes_sociales", "labor_social"}      \* three in the program
Codes(version) ==
  CASE version = 3 -> {"lalo", "paola"}
    [] version = 4 -> {"lalo", "paco", "otro", "no_sabe"}
Supported == {1, 3, 4}

(* A list with one entry for each member of a catalogue, in any order.              *)
OneEach(list, key(_), catalogue) ==
  Len(list) = Cardinality(catalogue) /\ {key(list[i]) : i \in DOMAIN list} = catalogue
ByCatalogue(list, key(_), value(_), catalogue) ==
  [c \in catalogue |-> value(SelectSeq(list, LAMBDA x : key(x) = c)[1])]

Governor(x) == x.governor
Mark(x) == x.mark
Person(x) == x.person
Level(x) == x.level

aprobacionPorGobernante(list) == OneEach(list, Governor, Governors)
conocimientoPorPersona(list) == OneEach(list, Person, People)
mediosConocimiento(p6) ==
  p6.tipo = "respondida" => /\ Len(p6.medios) > 0 /\ IsInjective(p6.medios)
                            /\ Range(p6.medios) \subseteq Channels

-----------------------------------------------------------------------------
(* The answers.                                                                     *)
(* In version 4 the text for "otro" comes with that code and with no other.         *)
OtherText(code, text) == IF code = "otro" THEN textoCorto(text) ELSE text = "absent"

respuestasV3(r) ==
  /\ listaDeNombres(r.empresariosConocidos, 0)
  /\ listaDeNombres(r.politicosConocidos, 1)
  /\ r.preferencia \in Codes(3)
  /\ aprobacionPorGobernante(r.aprobacion)

respuestasV4(r) ==
  /\ listaDeNombres(r.empresariosConocidos, 0)
  /\ listaDeNombres(r.politicosConocidos, 1)
  /\ r.preferencia \in Codes(4) /\ OtherText(r.preferencia, r.preferenciaOtro)
  /\ aprobacionPorGobernante(r.aprobacion)

KnowsSomebody(r) == \E i \in DOMAIN r.conocimiento : r.conocimiento[i].level # "no_conoce"

respuestasCompletadaV1(r) ==
  /\ r.credencial = "si"
  /\ conocimientoPorPersona(r.conocimiento) /\ mediosConocimiento(r.medios)
  /\ KnowsSomebody(r) <=> r.medios.tipo = "respondida"

(* The draft that was filled in before the credential turned out to be missing may   *)
(* come along: it is dropped.                                                        *)
respuestasNoElegibleV1(r) == r.credencial = "no" /\ r.conocimiento = <<>>

-----------------------------------------------------------------------------
(* The position: left out, taken, or missing for a reason.                           *)
MaxPrecision == 50

ubicacionDisponible(u) == u.esValida <=> u.precision <= MaxPrecision
ubicacionNoDisponible(u) ==
  /\ u.motivo = "permisoDenegado" => u.permiso # "concedido"
  /\ u.motivo = "servicioDesactivado" => ~u.servicioActivo
  /\ u.permiso = "concedido" /\ u.servicioActivo
       => u.motivo \in {"errorTemporal", "omitidaPorEncuestador"}

ubicacion(u) ==
  CASE u.kind = "absent" -> TRUE
    [] u.kind = "null" -> FALSE
    [] u.kind = "taken" -> ubicacionDisponible(u)
    [] u.kind = "missing" -> ubicacionNoDisponible(u)

-----------------------------------------------------------------------------
(* The body.  An instant is when it was and how it was written.                      *)
Tolerance == 2

coherenciaFechasDuracion(b) ==
  LET interval == b.fin.at - b.inicio.at
  IN  interval >= 0 /\ b.duracion - interval \in (-Tolerance)..Tolerance

Common(b) ==
  /\ textoOpcional(b.encuestador) /\ b.duracion >= 0
  /\ ubicacion(b.ubicacion) /\ textoCorto(b.versionAplicacion)
  /\ coherenciaFechasDuracion(b)

Accepted(b) ==
  /\ Common(b)
  /\ CASE b.version = 3 -> b.estado = "completada" /\ respuestasV3(b.respuestas)
       [] b.version = 4 -> b.estado = "completada" /\ respuestasV4(b.respuestas)
       [] b.version = 1 ->
            \/ /\ b.estado = "completada" /\ b.elegibilidad = "elegible"
               /\ respuestasCompletadaV1(b.respuestas)
            \/ /\ b.estado = "noElegible" /\ b.elegibilidad = "noElegible"
               /\ respuestasNoElegibleV1(b.respuestas)

-----------------------------------------------------------------------------
(* What is hashed.  A position is taken apart by kind; the state of the phone's own   *)
(* queue is in neither the hash nor the row.                                          *)
AnswersV3(r) ==
  [empresarios |-> TrimmedNames(r.empresariosConocidos),
   politicos |-> TrimmedNames(r.politicosConocidos),
   preferencia |-> r.preferencia,
   aprobacion |-> ByCatalogue(r.aprobacion, Governor, Mark, Governors)]

AnswersV4(r) ==
  LET same == AnswersV3(r)
  IN  [empresarios |-> same.empresarios, politicos |-> same.politicos, preferencia |-> same.preferencia,
       aprobacion |-> same.aprobacion, preferenciaOtro |-> Trimmed(r.preferenciaOtro)]

AnswersV1(b) ==
  IF b.estado = "noElegible"
  THEN [credencial |-> b.respuestas.credencial, conocimiento |-> <<>>]
  ELSE [credencial |-> b.respuestas.credencial,
        conocimiento |-> ByCatalogue(b.respuestas.conocimiento, Person, Level, People),
        tipo |-> b.respuestas.medios.tipo,
        medios |-> IF b.respuestas.medios.tipo = "respondida"
                  THEN Range(b.respuestas.medios.medios) ELSE {}]

Answers(b) ==
  CASE b.version = 1 -> AnswersV1(b)
    [] b.version = 3 -> AnswersV3(b.respuestas)
    [] b.version = 4 -> AnswersV4(b.respuestas)

Position(u) ==
  CASE u.kind = "absent" -> [kind |-> "absent"]
    [] u.kind = "taken" -> [kind |-> "taken", precision |-> u.precision, esValida |-> u.esValida]
    [] u.kind = "missing" -> [kind |-> "missing", permiso |-> u.permiso,
                              servicioActivo |-> u.servicioActivo, motivo |-> u.motivo]

CanonicalVersion(b) == CASE b.version = 1 -> 1 [] b.version = 3 -> 2 [] b.version = 4 -> 3

(* Versions 3 and 4 have no eligibility.                                              *)
Eligibility(b) == IF b.version = 1 THEN {b.elegibilidad} ELSE {}

\* a plausible mistake for Canonical: the optional name is left out of the hash
CanonicalWithoutName(b) ==
  [v |-> CanonicalVersion(b), idLocal |-> b.idLocal, version |-> b.version,
   estado |-> b.estado, inicio |-> b.inicio.at, fin |-> b.fin.at, duracion |-> b.duracion,
   respuestas |-> Answers(b), ubicacion |-> Position(b.ubicacion),
   app |-> Trimmed(b.versionAplicacion), elegibilidad |-> Eligibility(b)]

Canonical(b) ==
  [v |-> CanonicalVersion(b), idLocal |-> b.idLocal, encuestador |-> Trimmed(b.encuestador),
   version |-> b.version, estado |-> b.estado,
   inicio |-> b.inicio.at, fin |-> b.fin.at, duracion |-> b.duracion,
   respuestas |-> Answers(b), ubicacion |-> Position(b.ubicacion),
   app |-> Trimmed(b.versionAplicacion), elegibilidad |-> Eligibility(b)]

-----------------------------------------------------------------------------
(* What is stored: the columns that have a value.  Those of the other versions, and   *)
(* of the other branch, are NULL.                                                      *)
AnswerColumns(b) ==
  IF b.version = 1 /\ b.estado = "noElegible"
  THEN [credencial |-> b.respuestas.credencial]
  ELSE Answers(b)

ubicacionRow(u) ==
  CASE u.kind = "absent" -> <<>>
    [] u.kind = "taken" ->
         [disponible |-> TRUE, precision |-> u.precision, esValida |-> u.esValida,
          permiso |-> "concedido", servicioActivo |-> TRUE]
    [] u.kind = "missing" ->
         [disponible |-> FALSE, permiso |-> u.permiso, servicioActivo |-> u.servicioActivo,
          motivo |-> u.motivo]

mapEncuestaToRow(b) ==
  [idLocal |-> b.idLocal, version |-> b.version, encuestador |-> Trimmed(b.encuestador),
   estado |-> b.estado, inicio |-> b.inicio.at, fin |-> b.fin.at, duracion |-> b.duracion,
   respuestas |-> AnswerColumns(b), ubicacion |-> ubicacionRow(b.ubicacion),
   app |-> Trimmed(b.versionAplicacion), elegibilidad |-> Eligibility(b)]

-----------------------------------------------------------------------------
(* The line of the CSV: a cell for every column of the three versions, empty (the     *)
(* empty set) where this survey has none.  What a catalogue has an answer for is one    *)
(* cell for each of its members.  A list is one cell, its names with ";" between them:  *)
(* what lies between the ";" of the cell, which need not be the names.                  *)
Cell(row, column) == IF column \in DOMAIN row THEN {row[column]} ELSE {}

(* An apostrophe before what starts like a formula, and quotes for it and for a comma:  *)
(* the cell of a text that starts with the apostrophe is the same.                      *)
csvEscape(text) == IF text = "=name, other" THEN "'=name, other" ELSE text
TextCell(row, column) == {csvEscape(t) : t \in Cell(row, column) \ {"absent"}}

Between(name) == IF name = "name;other name" THEN <<"name", "other name">> ELSE <<name>>
Joined(names) ==
  LET pieces == FlattenSeq([i \in DOMAIN names |-> Between(names[i])])
  IN  [i \in DOMAIN pieces |-> IF i = 1 THEN csvEscape(pieces[i]) ELSE pieces[i]]
celdaDeLista(row, column) == {Joined(names) : names \in Cell(row, column) \ {<<>>}}
Pivot(row, column, catalogue) ==
  [c \in catalogue |-> IF column \in DOMAIN row THEN {row[column][c]} ELSE {}]
celdasDeMedios(row) ==
  [tipo |-> Cell(row, "tipo"), medios |-> UNION Cell(row, "medios")]

AnswerLine(r) ==
  [credencial |-> Cell(r, "credencial"),
   empresarios |-> celdaDeLista(r, "empresarios"), politicos |-> celdaDeLista(r, "politicos"),
   preferencia |-> Cell(r, "preferencia"), preferenciaOtro |-> TextCell(r, "preferenciaOtro"),
   aprobacion |-> Pivot(r, "aprobacion", Governors),
   conocimiento |-> Pivot(r, "conocimiento", People), medios |-> celdasDeMedios(r)]

toCsvRow(row) ==
  [common |-> <<row.idLocal, row.version, TextCell(row, "encuestador"), row.estado,
                row.inicio, row.fin, row.duracion, TextCell(row, "app")>>,
   elegibilidad |-> row.elegibilidad,
   answers |-> AnswerLine(row.respuestas),
   position |-> [c \in {"disponible", "precision", "esValida", "permiso", "servicioActivo",
                        "motivo"} |-> Cell(row.ubicacion, c)]]
=============================================================================
