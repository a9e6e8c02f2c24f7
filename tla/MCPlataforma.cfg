SPECIFICATION SpecPlataforma
CONSTANTS
  v1 = v1
  v2 = v2
  x1 = x1
  x2 = x2
  p1 = p1
  p2 = p2
  w1 = w1
  w2 = w2
  Versiones = {v1, v2}
  Caracteristicas = {del_plan, otra}
  Limite <- MCLimite
  MaxSubs = 2
  MaxCambios = 2
  Gestiones = {g1, g2}
  Usuarios = {u1, u2, u3}
  Roles = {admin, cajero}
  RolesSistema = {admin}
  Permisos = {k1, k2}
  UsuariosMax = del_plan
  ProductosMax = del_plan
  MaxReactivaciones = 1
  Peticiones = {q1, q2}
  Facturas = {f1, f2}
  Total = 2
  Abonos = {a1, a2, a3}
  Montos = {1, 2}
  Cobros = {c1, c2}
  Almacenes = {w1, w2}
  Cajas = {r1}
  Tramites = {t1, t2}
  Productos = {p1, p2}
  Variantes = {x1, x2}
  Lineas = {l1}
  MaxPiezas = 1
  Trabajos = {b1, b2}
SYMMETRY MCSimetria
CONSTRAINT MCUnaParte
INVARIANTS
  DerechosDelPlan
  CupoDelPlan
  PagadaCubierta
  SinControlSinStock
  
  ConPredeterminado
PROPERTIES
  ReemplazoCompleto
CHECK_DEADLOCK FALSE
