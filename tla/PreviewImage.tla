----------------------------- MODULE PreviewImage -----------------------------
(***************************************************************************)
(* The pictures that the service makes of a preview payload: width and     *)
(* height, two bytes each, and two bytes per pixel.  An image is the       *)
(* sequence of bytes of a BMP file, empty when there is none.              *)
(***************************************************************************)
EXTENDS WireFormats

Le16(v) == <<v % 256, (v \div 256) % 256>>
Le32(v) == Le16(v % 65536) \o Le16(v \div 65536)
Zeros(n) == [i \in 1..n |-> 0]

row_stride(width) == ((3 * width + 3) \div 4) * 4
BmpHeader(width, height) ==
    LET pixel_bytes == row_stride(width) * height
    IN  <<66, 77>> \o Le32(54 + pixel_bytes) \o Zeros(4) \o Le32(54)
          \o Le32(40) \o Le32(width) \o Le32(height) \o Le16(1) \o Le16(24) \o Zeros(4)
          \o Le32(pixel_bytes) \o Zeros(16)

\* The rows from the last to the first, each pixel blue, green, red, each row filled up
\* with zeros; Colour(x, y) is red, green, blue.
Bmp(width, height, Colour(_, _)) ==
    BmpHeader(width, height) \o
    [i \in 1..(row_stride(width) * height) |->
        LET y == height - 1 - ((i - 1) \div row_stride(width))
            k == (i - 1) % row_stride(width)
        IN  IF k < 3 * width THEN Colour(k \div 3, y)[3 - (k % 3)] ELSE 0]

-----------------------------------------------------------------------------
Rgb565(pixel) ==
    <<((pixel \div 2048) * 255) \div 31, (((pixel \div 32) % 64) * 255) \div 63,
      ((pixel % 32) * 255) \div 31>>

clamp_u8(v) == IF v < 0 THEN 0 ELSE IF v > 255 THEN 255 ELSE v
\* The shift by eight of a negative number rounds down, as \div does.
yuv_to_rgb(y, u, v) ==
    LET c == y - 16
        d == u - 128
        e == v - 128
    IN  <<clamp_u8((298 * c + 409 * e + 128) \div 256),
          clamp_u8((298 * c - 100 * d - 208 * e + 128) \div 256),
          clamp_u8((298 * c + 516 * d + 128) \div 256)>>

\* src is the payload; its pixels begin at offset 4.
At(src, width, x, y) == 4 + 2 * (y * width + x)
rgb565_to_bmp(src, width, height) ==
    LET Colour(x, y) == Rgb565(Le16At(src, At(src, width, x, y)))
    IN  Bmp(width, height, Colour)
rgb565_swapped_to_bmp(src, width, height) ==
    LET Colour(x, y) == Rgb565(Be16At(src, At(src, width, x, y)))
    IN  Bmp(width, height, Colour)

\* Two pixels share their colour: Y0 U Y1 V, or U Y0 V Y1 when uyvy_mode.
yuv422_to_bmp(src, width, height, uyvy_mode) ==
    LET luma == IF uyvy_mode THEN 1 ELSE 0
        Colour(x, y) ==
            LET pair == At(src, width, x - (x % 2), y)
            IN  yuv_to_rgb(src[pair + 2 * (x % 2) + luma + 1],
                           src[pair + 2 - luma], src[pair + 4 - luma])
    IN  Bmp(width, height, Colour)

-----------------------------------------------------------------------------
WidthOf(payload)  == Be16At(payload, 0)
HeightOf(payload) == Be16At(payload, 2)
IsPicture(payload) ==
    /\ Len(payload) >= 4
    /\ WidthOf(payload) # 0 /\ HeightOf(payload) # 0
    /\ Len(payload) = 4 + 2 * WidthOf(payload) * HeightOf(payload)

build_preview_debug_image(payload, decode_mode) ==
    LET w == WidthOf(payload)
        h == HeightOf(payload)
    IN  IF ~IsPicture(payload) THEN <<>>
        ELSE CASE decode_mode = "rgb565_swap" -> rgb565_swapped_to_bmp(payload, w, h)
               [] decode_mode = "yuyv" -> yuv422_to_bmp(payload, w, h, FALSE)
               [] decode_mode = "uyvy" -> yuv422_to_bmp(payload, w, h, TRUE)
               [] OTHER -> rgb565_to_bmp(payload, w, h)
==============================================================================
